---- MODULE Spec2Model ----
(***************************************************************************)
(* Media pipeline orchestrator of ai-story-tool: the wave scheduler of the *)
(* Storyboard (images), EditView (videos) and AudioGenerator (speech)      *)
(* batches over the StoryStore, and the provider fallback of the           *)
(* generate-video route.                                                   *)
(***************************************************************************)
EXTENDS Integers, Sequences, FiniteSets, TLC

VARIABLES
  view,          \* component rendered for storyStore.currentStep (or the AudioGenerator panel)
  mounted,       \* the mount effect of the rendered component has run
  shots,         \* storyStore.story.scenes[*].shots, flattened in story order
  chars,         \* storyStore.story.characters
  enableAudio,   \* settingsStore.settings.enableAudio
  selected,      \* EditView: selectedForAnimation
  generatingAll, \* generatingAll / animatingAll of the rendered component
  progress,      \* progress state {current, total}
  bpc,           \* position of the batch function: idle, wave, delay, done
  worklist,      \* shotsToGenerate / shotsToAnimate collected by the batch
  waveStart,     \* loop variable i of the batch
  completed,     \* local counter completed of the batch
  bjobs,         \* per worklist position: the job wrapper of batch.map
  xjobs,         \* jobs running outside a batch (per-shot buttons, background audio)
  gestures,      \* number of per-shot / selection / navigation gestures so far
  resetDone,     \* views whose mount effect has run since the story was loaded
  issued,        \* some generation job has been started since the story was loaded
  staleAtLoad,   \* the loaded story held an in-progress flag without its asset
  instance,      \* which instance of the view component is rendered
  selClosure,    \* selectedForAnimation as captured by the running animateSelected
  req,           \* generate-video route: the request being served
  rpc,           \* generate-video route: position of POST
  attempts,      \* generate-video route: replicate.run calls made, in order
  resp,          \* generate-video route: the response returned
  imageModel,    \* settingsStore.settings.imageModel.modelId sent with image requests
  served,        \* image routes: per batch job, the replicate.run calls made, in order
  segs,          \* composeVideos: the videos argument
  ffmpegInstance,\* videoComposer: the module-level FFmpeg instance
  fs,            \* file system of the FFmpeg instance
  cpc,           \* position of composeVideos
  spc,           \* per segment: position of its loop iteration
  processedFiles,\* composeVideos: processedFiles
  execs,         \* ffmpeg.exec calls made, in order
  blob,          \* what composeVideos returned
  audioDataUrl,  \* extendAudioToTargetDuration: the audioDataUrl argument
  targetDuration,\* extendAudioToTargetDuration: the targetDuration argument, in half seconds
  epc,           \* position of extendAudioToTargetDuration
  extendedBuffer,\* extendAudioToTargetDuration: extendedBuffer
  extended,      \* what extendAudioToTargetDuration resolved with
  caught,        \* extendAudioToTargetDuration: the error its catch clause received
  cache,         \* ModelCache.cache
  now,           \* Date.now() of the server, in hours
  got,           \* what the last direct call of a ModelCache method returned
  catReq,        \* catalog endpoints: the GET being served
  catPc,         \* catalog endpoints: position of GET
  catResp,       \* catalog endpoints: the response returned
  cjobs          \* generateCharacterImage calls waiting for their response

schedVars == <<view, mounted, shots, chars, enableAudio, selected, generatingAll,
               progress, bpc, worklist, waveStart, completed, bjobs, xjobs,
               gestures, resetDone, issued, staleAtLoad, instance, selClosure>>
routeVars == <<req, rpc, attempts, resp>>
imgVars == <<imageModel, served>>
compVars == <<segs, ffmpegInstance, fs, cpc, spc, processedFiles, execs, blob>>
normVars == <<audioDataUrl, targetDuration, epc, extendedBuffer, extended, caught>>
cacheVars == <<cache, now, got>>
catVars == <<catReq, catPc, catResp>>
restVars == <<normVars, cacheVars, catVars, cjobs>>
extVars == <<imgVars, compVars, restVars>>
vars == <<schedVars, routeVars, extVars>>

(***************************************************************************)
(* Bounds of the model.                                                    *)
(***************************************************************************)
ExtraShots == 1      \* shots beyond one full wave of the batch under study
MaxGestures == 1     \* user gestures besides starting the batch
MaxSegments == 2     \* videos handed to one composeVideos call
MaxFrames == 2       \* frames of a decoded speech track
MaxRate == 2         \* sample rates, in frames per second
MaxTarget == 3       \* target durations, in units of 1 / TargetScale seconds
SampleScale == 2     \* sample values are multiples of 1 / SampleScale
TargetScale == 2     \* durations are multiples of 1 / TargetScale seconds
MaxClock == 3        \* hours the server clock runs
MaxTTL == 2          \* ttl argument of a direct set, in hours
MaxCharacterGestures == 3 \* clicks on a character and edits of the character list

(***************************************************************************)
(* Program constants.                                                      *)
(***************************************************************************)
ImageConcurrency == 5
VideoConcurrency == 3
AudioConcurrency == 10
WavHeader == 44      \* audioBufferToDataUrl: bytes of the buffer before the samples
DataOffset == 44     \* audioBufferToDataUrl: let offset = 44
Int16Max == 32767    \* audioBufferToDataUrl: 0x7FFF
OPENROUTER_TTL == 1   \* OpenRouter route: CACHE_TTL, in hours
REPLICATE_TTL == 6    \* Replicate route: CACHE_TTL, in hours

Min(a, b) == IF a < b THEN a ELSE b

Kinds == {"image", "video", "audio"}
Views == {"storyboard", "edit", "audio"}

\* asset references: undefined, a reference stored with the project, or the
\* reference returned to a batch job, a per-shot button job, a background job
NoAsset == "none"

BatchKind(v) == CASE v = "storyboard" -> "image"
                  [] v = "edit" -> "video"
                  [] OTHER -> "audio"

Concurrency(k) == CASE k = "image" -> ImageConcurrency
                    [] k = "video" -> VideoConcurrency
                    [] OTHER -> AudioConcurrency

\* the Shot fields of a job kind
AssetOf(sh, k) == CASE k = "image" -> sh.imageUrl
                    [] k = "video" -> sh.animationUrl
                    [] OTHER -> sh.audioUrl

FlagOf(sh, k) == CASE k = "image" -> sh.isGenerating
                   [] k = "video" -> sh.isAnimating
                   [] OTHER -> sh.isGeneratingAudio

\* storyStore.updateShot(sceneId, shotId, {<flag of k>: b})
SetFlag(ss, k, s, b) ==
  CASE k = "image" -> [ss EXCEPT ![s].isGenerating = b]
    [] k = "video" -> [ss EXCEPT ![s].isAnimating = b]
    [] OTHER -> [ss EXCEPT ![s].isGeneratingAudio = b]

\* storyStore.updateShot(sceneId, shotId, {<asset of k>: a, <flag of k>: false})
SetAssetClearFlag(ss, k, s, a) ==
  CASE k = "image" -> [ss EXCEPT ![s].imageUrl = a, ![s].isGenerating = FALSE]
    [] k = "video" -> [ss EXCEPT ![s].animationUrl = a, ![s].isAnimating = FALSE]
    [] OTHER -> [ss EXCEPT ![s].audioUrl = a, ![s].isGeneratingAudio = FALSE]

(***************************************************************************)
(* The story loaded into the store.                                        *)
(***************************************************************************)
\* number of shots of the loaded story: one full wave of the batch and more
ShotCount(v) == Concurrency(BatchKind(v)) + ExtraShots

\* a shot as generated by the story editor: no asset, no flag
FreshShot == [subtitle |-> TRUE,
              imageUrl |-> NoAsset, isGenerating |-> FALSE,
              animationUrl |-> NoAsset, isAnimating |-> FALSE,
              audioUrl |-> NoAsset, isGeneratingAudio |-> FALSE]

\* what a saved project may hold for a shot: every asset with or without its
\* in-progress flag still set (the flags are saved with the story)
StoredShots ==
  { FreshShot,
    [FreshShot EXCEPT !.imageUrl = "stored"],
    [FreshShot EXCEPT !.isGenerating = TRUE],
    [FreshShot EXCEPT !.imageUrl = "stored", !.isGenerating = TRUE],
    [FreshShot EXCEPT !.imageUrl = "stored", !.isAnimating = TRUE,
                      !.isGeneratingAudio = TRUE],
    [FreshShot EXCEPT !.imageUrl = "stored", !.animationUrl = "stored",
                      !.audioUrl = "stored"],
    [FreshShot EXCEPT !.imageUrl = "stored", !.animationUrl = "stored",
                      !.isAnimating = TRUE, !.audioUrl = "stored",
                      !.isGeneratingAudio = TRUE],
    [FreshShot EXCEPT !.isGenerating = TRUE, !.isAnimating = TRUE,
                      !.isGeneratingAudio = TRUE] }

\* the shots the AudioGenerator panel starts from
StoredAudioShots == { FreshShot, [FreshShot EXCEPT !.audioUrl = "stored"] }

\* the other shots of the story: in the Storyboard/EditView stories only the
\* first two shots carry narration (subtitle), in the AudioGenerator story all do
DefaultShot(v, s) ==
  CASE v = "edit" -> [FreshShot EXCEPT !.imageUrl = "stored", !.subtitle = (s <= 2)]
    [] v = "storyboard" -> [FreshShot EXCEPT !.subtitle = (s <= 2)]
    [] OTHER -> FreshShot

\* the character of the saved project: its reference image was saved in the
\* state the image of the first shot was saved in
StoredChar(sh) == [referenceImageUrl |-> sh.imageUrl, isGenerating |-> sh.isGenerating]

Stale(sh, k) == FlagOf(sh, k) /\ AssetOf(sh, k) = NoAsset
StaleChar(c) == c.isGenerating /\ c.referenceImageUrl = NoAsset

AnyStale(ss, cs) ==
  \/ \E s \in DOMAIN ss : \E k \in Kinds : Stale(ss[s], k)
  \/ \E c \in DOMAIN cs : StaleChar(cs[c])

(***************************************************************************)
(* Mount effects.                                                          *)
(***************************************************************************)
\* Storyboard: reset isGenerating of every shot without imageUrl
ResetStoryboardShots(ss) ==
  [s \in DOMAIN ss |->
     IF ss[s].isGenerating /\ ss[s].imageUrl = NoAsset
       THEN [ss[s] EXCEPT !.isGenerating = FALSE] ELSE ss[s]]

\* Storyboard: reset isGenerating of every character without reference image
ResetCharacters(cs) ==
  [c \in DOMAIN cs |->
     IF cs[c].isGenerating /\ cs[c].referenceImageUrl = NoAsset
       THEN [cs[c] EXCEPT !.isGenerating = FALSE] ELSE cs[c]]

\* mutant: the effect forgets the audio flag
ResetEditViewShots_VideoOnly(ss) ==
  [s \in DOMAIN ss |->
     [ss[s] EXCEPT
        !.isAnimating = IF @ /\ ss[s].animationUrl = NoAsset THEN FALSE ELSE @]]

\* EditView: reset isAnimating without animationUrl, isGeneratingAudio without audioUrl
ResetEditViewShots(ss) ==
  [s \in DOMAIN ss |->
     [ss[s] EXCEPT
        !.isAnimating = IF @ /\ ss[s].animationUrl = NoAsset THEN FALSE ELSE @,
        !.isGeneratingAudio = IF @ /\ ss[s].audioUrl = NoAsset THEN FALSE ELSE @]]

(***************************************************************************)
(* Batch bookkeeping.                                                      *)
(***************************************************************************)
\* the worklist filter of each batch, in story order
Needs(v, sh, s, sel) ==
  CASE v = "storyboard" -> sh.imageUrl = NoAsset /\ ~sh.isGenerating
    [] v = "edit" -> s \in sel /\ ~sh.isAnimating /\ sh.animationUrl = NoAsset
    [] OTHER -> sh.audioUrl = NoAsset /\ ~sh.isGeneratingAudio /\ sh.subtitle

RECURSIVE CollectFrom(_, _, _, _)
CollectFrom(v, ss, sel, s) ==
  IF s > Len(ss) THEN <<>>
  ELSE (IF Needs(v, ss[s], s, sel) THEN <<s>> ELSE <<>>) \o CollectFrom(v, ss, sel, s + 1)

Collect(v, ss, sel) == CollectFrom(v, ss, sel, 1)

\* mutant: the slice takes one position too many
WaveSlice_Inclusive(i, c, len) == (i + 1) .. Min(i + c + 1, len)

\* positions of the worklist in batch = list.slice(i, i + concurrency)
WaveSlice(i, c, len) == (i + 1) .. Min(i + c, len)

\* mutant: the loop test is off by one and leaves the last job out
MoreWaves_OffByOne(i, c, len) == i + c + 1 < len

\* if (i + concurrency < list.length): another wave follows
MoreWaves(i, c, len) == i + c < len

\* mutant: the wave ends with its first returned job (Promise.race)
WaveSettled_Any(bj, wave) == \E p \in wave : bj[p].pc = "counted"

\* mutant: the wave ends with its first failed job (a wrapper that rethrows)
WaveSettled_FailFast(bj, wave) ==
  \/ \A p \in wave : bj[p].pc = "counted"
  \/ \E p \in wave : bj[p].res = "error"

\* Promise.all(batch.map(...)) has resolved: every wrapper of the wave returned
WaveSettled(bj, wave) == \A p \in wave : bj[p].pc = "counted"

\* the job function returns at once without a request (animateShot without imageUrl)
SkipsRequest(v, sh) == v = "edit" /\ sh.imageUrl = NoAsset

\* a promise continuation is queued: it runs before any timer, response or click
MicrotaskPending ==
  bpc = "wave" /\ WaveSettled(bjobs, WaveSlice(waveStart, Concurrency(BatchKind(view)), Len(worklist)))

(***************************************************************************)
(* Job functions: generateImage, animateShot, generateAudio.               *)
(***************************************************************************)
\* try-block up to the request: the in-progress flag of the target is set
OnJobStart(ss, k, s) == SetFlag(ss, k, s, TRUE)

\* the response carried no error: asset reference written, flag cleared
OnJobSuccess(ss, k, s, a) == SetAssetClearFlag(ss, k, s, a)

\* mutant: the catch-block leaves the flag set
OnJobError_KeepsFlag(ss, k, s) == ss

\* catch-block (or !response.ok): only the flag is cleared
OnJobError(ss, k, s) == SetFlag(ss, k, s, FALSE)

\* animateShot after a success: generateAudio is started and not awaited
SpawnsAudio(k, sh) ==
  k = "video" /\ enableAudio /\ sh.subtitle /\ sh.audioUrl = NoAsset

\* smallest copy number not in use for a job outside a batch
FreeCopy(xs, k, s, src) ==
  CHOOSE n \in 1 .. (Cardinality(xs) + 1) :
    /\ ~(\E j \in xs : j.kind = k /\ j.shot = s /\ j.src = src /\ j.n = n)
    /\ \A m \in 1 .. (n - 1) : \E j \in xs : j.kind = k /\ j.shot = s /\ j.src = src /\ j.n = m

XJob(xs, k, s, src, sel) ==
  [kind |-> k, shot |-> s, src |-> src, sel |-> sel, inst |-> instance,
   n |-> FreeCopy(xs, k, s, src)]

\* state of the store and of the background jobs after a job of kind k on
\* shot s returned; a is the asset it returned, ok tells success from error
AfterJob(ss, xs, k, s, a, ok) ==
  IF ~ok THEN [shots |-> OnJobError(ss, k, s), xjobs |-> xs]
  ELSE IF SpawnsAudio(k, ss[s])
    THEN [shots |-> OnJobStart(OnJobSuccess(ss, k, s, a), "audio", s),
          xjobs |-> xs \cup {XJob(xs, "audio", s, "bg", {})}]
    ELSE [shots |-> OnJobSuccess(ss, k, s, a), xjobs |-> xs]

\* animateShot after a success: the shot leaves the selection the closure captured
SelectionAfter(k, s, sel, inst, ok) ==
  IF k = "video" /\ ok /\ view = "edit" /\ inst = instance THEN sel \ {s} ELSE selected

NoProgress == [current |-> 0, total |-> 0]

(***************************************************************************)
(* Initial state: a stored project was loaded, its view is not mounted yet.*)
(***************************************************************************)
(***************************************************************************)
(* generate-video route: POST with the fallback to the default model.      *)
(***************************************************************************)
DEFAULT_MODEL == "stability-ai/stable-video-diffusion:3f0457e4619daac51203dedb472816fd4af51f3149fa7a9e0b5ffcf1b8172438"

\* modelConfig.modelId values of a request ("none": no modelConfig / no modelId)
ModelIds == {"none", DEFAULT_MODEL, "stability-ai/stable-video-diffusion",
             "lightricks/ltx-video:8c47da66", "acme/unlisted-model"}

\* imageUrl values of a request ("none": missing)
ImageUrls == {"none", "img-a", "img-b"}

\* error.message of a failed replicate.run, as the parts `includes` looks for;
\* the empty sequence is an error without message
Messages == { <<>>, <<"timeout">>, <<"Prediction failed">>,
              <<"Request failed with status ", "404">>,
              <<"Model ", "Not Found">>, <<"resource not found">>,
              <<"404", " ", "Not Found">> }

\* what replicate.run does: resolve with an output or throw an error
Outcomes == {[ok |-> TRUE, msg |-> <<>>]} \cup {[ok |-> FALSE, msg |-> m] : m \in Messages}

\* message.includes(part)
Includes(msg, part) == \E i \in DOMAIN msg : msg[i] = part

\* mutant: only the status code is looked for
Is404_StatusOnly(msg) == msg # <<>> /\ \E i \in DOMAIN msg : msg[i] = "404"

\* is404Error / isFallback404: message && (includes('404') || includes('Not Found'))
Is404(msg) == msg # <<>> /\ (Includes(msg, "404") \/ Includes(msg, "Not Found"))

\* getModelConfig: first MODEL_CONFIGS key contained in the id, else the superset
GetModelConfig(id) ==
  CASE id \in {DEFAULT_MODEL, "stability-ai/stable-video-diffusion"} ->
         [input_image |-> TRUE, image |-> FALSE, params |-> "motion_bucket_id"]
    [] id = "lightricks/ltx-video:8c47da66" ->
         [input_image |-> FALSE, image |-> TRUE, params |-> "prompt"]
    [] OTHER ->
         [input_image |-> TRUE, image |-> TRUE, params |-> "superset"]

\* input = {...config.params, input_image?: imageUrl, image?: imageUrl}
BuildInput(id, img) ==
  LET cfg == GetModelConfig(id)
  IN [params |-> cfg.params,
      input_image |-> IF cfg.input_image THEN img ELSE "none",
      image |-> IF cfg.image THEN img ELSE "none"]

\* modelConfig?.modelId || DEFAULT_MODEL
ConfiguredModel(r) == IF r.modelId = "none" THEN DEFAULT_MODEL ELSE r.modelId

\* mutant: the retry is made whatever the configured model
RetriesWithDefault_Always(id) == TRUE

\* if (modelId !== DEFAULT_MODEL): retry with the default model
RetriesWithDefault(id) == id # DEFAULT_MODEL

ExpiredText == <<"Image URL has expired. Please go back to Storyboard and regenerate the image">>
RequiredText == <<"Image URL is required">>
FailedText == <<"Failed to generate video">>

NoResponse == [status |-> 0, error |-> <<>>, videoUrl |-> "none", modelUsed |-> "none",
               warning |-> "none"]

\* NextResponse.json({error}, {status})
ErrorResponse(text, st) == [NoResponse EXCEPT !.status = st, !.error = text]

\* NextResponse.json({videoUrl, modelUsed[, warning]})
VideoResponse(id, warn) ==
  [NoResponse EXCEPT !.status = 200, !.videoUrl = "video", !.modelUsed = id, !.warning = warn]

\* mutant: the outer catch drops error.message
OuterCatch_DropsMessage(msg) ==
  IF msg # <<>> /\ (\E i \in DOMAIN msg : msg[i] \in {"404", "Not Found"})
    THEN [status |-> 400, error |-> <<"Image URL has expired. Please go back to Storyboard and regenerate the image">>,
          videoUrl |-> "none", modelUsed |-> "none", warning |-> "none"]
    ELSE [status |-> 500, error |-> <<"Failed to generate video">>,
          videoUrl |-> "none", modelUsed |-> "none", warning |-> "none"]

\* outer catch: the 404 text, or error.message || 'Failed to generate video'
OuterCatch(msg) ==
  IF Is404(msg) THEN ErrorResponse(ExpiredText, 400)
  ELSE ErrorResponse(IF msg = <<>> THEN FailedText ELSE msg, 500)

\* catch (fallbackError): the 404 text, or rethrow to the outer catch
FallbackCatch(msg) ==
  IF Is404(msg) THEN ErrorResponse(ExpiredText, 400) ELSE OuterCatch(msg)

Attempt(id, img) == [model |-> id, input |-> BuildInput(id, img), out |-> "pending", msg |-> <<>>]

Returned(a, o) == [a EXCEPT !.out = IF o.ok THEN "ok" ELSE "error", !.msg = o.msg]

RouteIdle ==
  /\ req = [imageUrl |-> "none", modelId |-> "none"]
  /\ rpc = "idle"
  /\ attempts = <<>>
  /\ resp = NoResponse

\* no image request has been served
ImgIdle ==
  /\ imageModel = "none"
  /\ served = <<>>

\* bytes held by a file of the FFmpeg instance or by a Blob: their length, the
\* clips whose frames they hold in playing order, the codecs of the two streams,
\* the playing time, and for a text file its lines
NoData == [size |-> 0, video |-> <<>>, vcodec |-> "none", acodec |-> "none",
           dur |-> 0, text |-> <<>>]

NoBlob == [status |-> "none", data |-> NoData, error |-> "none"]

\* videoComposer as loaded: no FFmpeg instance, composeVideos not called
CompIdle ==
  /\ segs = <<>>
  /\ ffmpegInstance = "null"
  /\ fs = <<>>
  /\ cpc = "idle"
  /\ spc = <<>>
  /\ processedFiles = <<>>
  /\ execs = <<>>
  /\ blob = NoBlob

\* a data URL by what it holds: the media type and, for audio, the channel
\* count, the sample rate, the samples per channel and the bytes of the file
NoUrl == [type |-> "none"]

\* an AudioBuffer: numberOfChannels, sampleRate and one Float32Array per channel
NoBuffer == [numberOfChannels |-> 0, sampleRate |-> 0, channelData |-> <<>>]

\* audioExtender as loaded: extendAudioToTargetDuration not called
NormIdle ==
  /\ audioDataUrl = NoUrl
  /\ targetDuration = 0
  /\ epc = "idle"
  /\ extendedBuffer = NoBuffer
  /\ extended = NoUrl
  /\ caught = "none"

\* modelCache as constructed: an empty Map
CacheIdle ==
  /\ cache = <<>>
  /\ now = 0
  /\ got = [op |-> "none", arg |-> [given |-> FALSE, key |-> ""], value |-> "undefined"]

\* no catalog request being served
CatIdle ==
  /\ catReq = [endpoint |-> "none", refresh |-> FALSE, category |-> "all",
               token |-> FALSE, upstream |-> "none"]
  /\ catPc = "idle"
  /\ catResp = [status |-> 0, success |-> FALSE, models |-> [category |-> "none", list |-> "none"],
                cached |-> FALSE, warning |-> "none", error |-> "none"]

RestIdle == NormIdle /\ CacheIdle /\ CatIdle /\ cjobs = {}

Init ==
  /\ ImgIdle /\ CompIdle /\ RestIdle
  /\ view \in Views
  /\ mounted = (view = "audio")
  /\ enableAudio \in (IF view = "edit" THEN BOOLEAN ELSE {TRUE})
  /\ \E pre \in (IF view = "audio" THEN StoredAudioShots ELSE StoredShots) :
       shots = [s \in 1 .. ShotCount(view) |-> IF s = 1 THEN pre ELSE DefaultShot(view, s)]
  /\ chars = <<StoredChar(shots[1])>>
  /\ selected = {}
  /\ generatingAll = FALSE
  /\ progress = NoProgress
  /\ bpc = "idle"
  /\ worklist = <<>>
  /\ waveStart = 0
  /\ completed = 0
  /\ bjobs = <<>>
  /\ xjobs = {}
  /\ gestures = 0
  /\ resetDone = {}
  /\ issued = FALSE
  /\ staleAtLoad = AnyStale(shots, chars)
  /\ instance = 0
  /\ selClosure = {}
  /\ RouteIdle

(***************************************************************************)
(* Mount effects and navigation.                                           *)
(***************************************************************************)
Mount ==
  /\ ~mounted
  /\ shots' = (IF view = "storyboard" THEN ResetStoryboardShots(shots)
               ELSE ResetEditViewShots(shots))
  /\ chars' = (IF view = "storyboard" THEN ResetCharacters(chars) ELSE chars)
  /\ mounted' = TRUE
  /\ resetDone' = resetDone \cup {view}
  /\ UNCHANGED <<view, enableAudio, selected, generatingAll, progress, bpc, worklist,
                 waveStart, completed, bjobs, xjobs, gestures, issued, staleAtLoad,
                 instance, selClosure, routeVars, extVars>>

\* goToEdit (some shot with an image is selected) / Back to Storyboard, taken
\* while the story is being opened: before any job, to a view not yet visited
Navigate ==
  /\ mounted /\ ~MicrotaskPending
  /\ bpc = "idle" /\ ~issued
  /\ \/ view = "storyboard" /\ (\E s \in DOMAIN shots : shots[s].imageUrl # NoAsset)
                            /\ view' = "edit"
     \/ view = "edit" /\ view' = "storyboard"
  /\ view' \notin resetDone
  /\ mounted' = FALSE
  /\ selected' = {}
  /\ instance' = instance + 1
  /\ UNCHANGED <<shots, chars, enableAudio, generatingAll, progress, bpc, worklist,
                 waveStart, completed, bjobs, xjobs, gestures, resetDone, issued,
                 staleAtLoad, selClosure, routeVars, extVars>>

(***************************************************************************)
(* The batch: generateAllImages / animateSelected / generateAllAudio.      *)
(***************************************************************************)
\* batch.map(...) runs every job function of the wave up to its request
RECURSIVE StartWaveShots(_, _, _, _)
StartWaveShots(ss, v, wl, ps) ==
  IF ps = {} THEN ss
  ELSE LET p == CHOOSE q \in ps : \A r \in ps : q <= r
           next == IF SkipsRequest(v, ss[wl[p]]) THEN ss
                   ELSE OnJobStart(ss, BatchKind(v), wl[p])
       IN StartWaveShots(next, v, wl, ps \ {p})

StartWaveJobs(bj, ss, v, wl, ps) ==
  [p \in DOMAIN bj |->
     IF p \in ps
       THEN IF SkipsRequest(v, ss[wl[p]])
              THEN [pc |-> "counted", res |-> "skipped"]
              ELSE [pc |-> "fetch", res |-> "none"]
       ELSE bj[p]]

\* completed++ of the wrapper
Counted(c) == c + 1

\* the wrappers of the jobs that returned without a request count at once
RECURSIVE CountAll(_, _)
CountAll(c, n) == IF n = 0 THEN c ELSE CountAll(Counted(c), n - 1)

SkippedIn(ss, v, wl, ps) == Cardinality({p \in ps : SkipsRequest(v, ss[wl[p]])})

\* the button of the batch is enabled
BatchButton ==
  /\ ~generatingAll
  /\ view = "edit" => selected # {}
  /\ view = "audio" => enableAudio /\ (\E s \in DOMAIN shots : shots[s].subtitle)

StartBatch ==
  /\ mounted /\ ~MicrotaskPending
  /\ bpc = "idle"
  /\ BatchButton
  /\ LET wl == Collect(view, shots, selected)
         c == Concurrency(BatchKind(view))
         wave == WaveSlice(0, c, Len(wl))
         fresh == [p \in 1 .. Len(wl) |-> [pc |-> "pending", res |-> "none"]]
     IN /\ worklist' = wl
        /\ completed' = CountAll(0, SkippedIn(shots, view, wl, wave))
        /\ waveStart' = 0
        /\ selClosure' = selected
        /\ IF Len(wl) = 0
             THEN /\ bpc' = "done"
                  /\ generatingAll' = FALSE
                  /\ progress' = NoProgress
                  /\ bjobs' = fresh
                  /\ UNCHANGED <<shots, issued>>
             ELSE /\ bpc' = "wave"
                  /\ generatingAll' = TRUE
                  /\ progress' = [current |-> completed', total |-> Len(wl)]
                  /\ shots' = StartWaveShots(shots, view, wl, wave)
                  /\ bjobs' = StartWaveJobs(fresh, shots, view, wl, wave)
                  /\ issued' = TRUE
  /\ UNCHANGED <<view, mounted, chars, enableAudio, selected, xjobs, gestures,
                 resetDone, staleAtLoad, instance, routeVars, extVars>>

\* the request of the batch job at worklist position p returns: the job function
\* writes the store and returns, then its wrapper counts it and reports progress
JobReturns(p, ok) ==
  /\ bpc = "wave" /\ ~MicrotaskPending
  /\ p \in DOMAIN bjobs /\ bjobs[p].pc = "fetch"
  /\ LET k == BatchKind(view)
         s == worklist[p]
         after == AfterJob(shots, xjobs, k, s, "batch", ok)
     IN /\ shots' = after.shots
        /\ xjobs' = after.xjobs
        /\ selected' = SelectionAfter(k, s, selClosure, instance, ok)
  /\ completed' = Counted(completed)
  /\ progress' = [current |-> completed', total |-> Len(worklist)]
  /\ bjobs' = [bjobs EXCEPT ![p] = [pc |-> "counted", res |-> IF ok THEN "ok" ELSE "error"]]
  /\ UNCHANGED <<view, mounted, chars, enableAudio, generatingAll, bpc,
                 worklist, waveStart, gestures, resetDone, issued,
                 staleAtLoad, instance, selClosure, routeVars, imageModel, compVars, restVars>>

\* Promise.all resolved: wait for the inter-wave timer, or leave the loop
WaveEnd ==
  /\ bpc = "wave"
  /\ LET c == Concurrency(BatchKind(view))
     IN /\ WaveSettled(bjobs, WaveSlice(waveStart, c, Len(worklist)))
        /\ IF MoreWaves(waveStart, c, Len(worklist))
             THEN /\ bpc' = "delay"
                  /\ UNCHANGED <<generatingAll, progress>>
             ELSE /\ bpc' = "done"
                  /\ generatingAll' = FALSE
                  /\ progress' = NoProgress
  /\ UNCHANGED <<view, mounted, shots, chars, enableAudio, selected, worklist, waveStart,
                 completed, bjobs, xjobs, gestures, resetDone, issued, staleAtLoad,
                 instance, selClosure, routeVars, extVars>>

\* the inter-wave timer fired: i += concurrency, next wave
DelayElapsed ==
  /\ bpc = "delay" /\ ~MicrotaskPending
  /\ LET c == Concurrency(BatchKind(view))
         i == waveStart + c
         wave == WaveSlice(i, c, Len(worklist))
     IN /\ waveStart' = i
        /\ shots' = StartWaveShots(shots, view, worklist, wave)
        /\ bjobs' = StartWaveJobs(bjobs, shots, view, worklist, wave)
        /\ completed' = CountAll(completed, SkippedIn(shots, view, worklist, wave))
        /\ progress' = [current |-> completed', total |-> Len(worklist)]
  /\ bpc' = "wave"
  /\ UNCHANGED <<view, mounted, chars, enableAudio, selected, generatingAll,
                 worklist, xjobs, gestures, resetDone, issued, staleAtLoad,
                 instance, selClosure, routeVars, extVars>>

(***************************************************************************)
(* Gestures outside the batch.                                             *)
(***************************************************************************)
\* the tiles the gestures of the model go to: the first shot (whose stored
\* fields vary), a shot of the first wave and the last shot of the story
GestureShots == {1, 2, Len(shots)}

\* Storyboard tile: "Generate Image" / "Regenerate", shown unless isGenerating
ClickGenerate(s) ==
  /\ mounted /\ ~MicrotaskPending
  /\ view = "storyboard"
  /\ gestures < MaxGestures
  /\ ~shots[s].isGenerating
  /\ shots' = OnJobStart(shots, "image", s)
  /\ xjobs' = xjobs \cup {XJob(xjobs, "image", s, "single", {})}
  /\ gestures' = gestures + 1
  /\ issued' = TRUE
  /\ UNCHANGED <<view, mounted, chars, enableAudio, selected, generatingAll, progress, bpc,
                 worklist, waveStart, completed, bjobs, resetDone, staleAtLoad, instance,
                 selClosure, routeVars, extVars>>

\* EditView tile: "Regenerate", shown for an animated shot unless isAnimating
ClickRegenerate(s) ==
  /\ mounted /\ ~MicrotaskPending
  /\ view = "edit"
  /\ gestures < MaxGestures
  /\ shots[s].imageUrl # NoAsset /\ ~shots[s].isAnimating /\ shots[s].animationUrl # NoAsset
  /\ shots' = OnJobStart(shots, "video", s)
  /\ xjobs' = xjobs \cup {XJob(xjobs, "video", s, "single", selected)}
  /\ gestures' = gestures + 1
  /\ issued' = TRUE
  /\ UNCHANGED <<view, mounted, chars, enableAudio, selected, generatingAll, progress, bpc,
                 worklist, waveStart, completed, bjobs, resetDone, staleAtLoad, instance,
                 selClosure, routeVars, extVars>>

\* EditView tile click: toggleSelection (the model takes it before the batch)
Toggle(s) ==
  /\ mounted /\ ~MicrotaskPending
  /\ view = "edit"
  /\ bpc = "idle"
  /\ gestures < MaxGestures
  /\ shots[s].imageUrl # NoAsset /\ ~shots[s].isAnimating /\ shots[s].animationUrl = NoAsset
  /\ selected' = (IF s \in selected THEN selected \ {s} ELSE selected \cup {s})
  /\ gestures' = gestures + 1
  /\ UNCHANGED <<view, mounted, shots, chars, enableAudio, generatingAll, progress, bpc,
                 worklist, waveStart, completed, bjobs, xjobs, resetDone, issued,
                 staleAtLoad, instance, selClosure, routeVars, extVars>>

\* EditView: selectAll
SelectAll ==
  /\ mounted /\ ~MicrotaskPending
  /\ view = "edit"
  /\ selected' = {s \in DOMAIN shots :
                    shots[s].imageUrl # NoAsset /\ shots[s].animationUrl = NoAsset}
  /\ UNCHANGED <<view, mounted, shots, chars, enableAudio, generatingAll, progress, bpc,
                 worklist, waveStart, completed, bjobs, xjobs, gestures, resetDone, issued,
                 staleAtLoad, instance, selClosure, routeVars, extVars>>

\* the request of a job outside the batch returns
XJobReturns(j, ok) ==
  /\ ~MicrotaskPending
  /\ j \in xjobs
  /\ LET after == AfterJob(shots, xjobs \ {j}, j.kind, j.shot, j.src, ok)
     IN /\ shots' = after.shots
        /\ xjobs' = after.xjobs
  /\ selected' = SelectionAfter(j.kind, j.shot, j.sel, j.inst, ok)
  /\ UNCHANGED <<view, mounted, chars, enableAudio, generatingAll, progress, bpc, worklist,
                 waveStart, completed, bjobs, gestures, resetDone, issued, staleAtLoad,
                 instance, selClosure, routeVars, extVars>>

SchedNext ==
  \/ Mount
  \/ Navigate
  \/ StartBatch
  \/ \E p \in DOMAIN bjobs : \E ok \in BOOLEAN : JobReturns(p, ok) /\ UNCHANGED served
  \/ WaveEnd
  \/ DelayElapsed
  \/ \E s \in GestureShots : ClickGenerate(s)
  \/ \E s \in GestureShots : ClickRegenerate(s)
  \/ \E s \in GestureShots : Toggle(s)
  \/ SelectAll
  \/ \E j \in xjobs : \E ok \in BOOLEAN : XJobReturns(j, ok)

Next == SchedNext

Spec == Init /\ [][Next]_vars

\* every request returns, the event loop runs the continuation of a settled
\* wave, and the inter-wave timer fires
Fairness ==
  /\ WF_vars(\E p \in 1 .. Len(worklist) : \E ok \in BOOLEAN : JobReturns(p, ok) /\ UNCHANGED served)
  /\ WF_vars(\E j \in xjobs : \E ok \in BOOLEAN : XJobReturns(j, ok))
  /\ WF_vars(WaveEnd)
  /\ WF_vars(DelayElapsed)

SpecFair == Spec /\ Fairness

(***************************************************************************)
(* generate-video route: one request from arrival to response.             *)
(***************************************************************************)
\* the store side is not part of the route's runs
SchedIdle ==
  /\ view = "edit" /\ mounted = TRUE /\ enableAudio = FALSE
  /\ shots = <<[FreshShot EXCEPT !.imageUrl = "stored"]>>
  /\ chars = <<>>
  /\ selected = {} /\ generatingAll = FALSE /\ progress = NoProgress
  /\ bpc = "idle" /\ worklist = <<>> /\ waveStart = 0 /\ completed = 0
  /\ bjobs = <<>> /\ xjobs = {} /\ gestures = 0 /\ resetDone = {"edit"}
  /\ issued = FALSE /\ staleAtLoad = FALSE /\ instance = 0 /\ selClosure = {}

RouteInit == SchedIdle /\ RouteIdle /\ ImgIdle /\ CompIdle /\ RestIdle

\* POST up to the first replicate.run
Receive(img, id) ==
  /\ rpc = "idle"
  /\ req' = [imageUrl |-> img, modelId |-> id]
  /\ IF img = "none"
       THEN /\ resp' = ErrorResponse(RequiredText, 400)
            /\ rpc' = "done"
            /\ UNCHANGED attempts
       ELSE /\ attempts' = <<Attempt(ConfiguredModel(req'), img)>>
            /\ rpc' = "first"
            /\ UNCHANGED resp
  /\ UNCHANGED <<schedVars, extVars>>

\* replicate.run with the configured model returns
FirstReturns(o) ==
  /\ rpc = "first"
  /\ LET id == ConfiguredModel(req)
         log == [attempts EXCEPT ![1] = Returned(@, o)]
     IN IF o.ok
          THEN /\ resp' = VideoResponse(id, "none")
               /\ attempts' = log
               /\ rpc' = "done"
          ELSE IF Is404(o.msg)
            THEN /\ resp' = ErrorResponse(ExpiredText, 400)
                 /\ attempts' = log
                 /\ rpc' = "done"
            ELSE IF RetriesWithDefault(id)
              THEN /\ attempts' = Append(log, Attempt(DEFAULT_MODEL, req.imageUrl))
                   /\ rpc' = "fallback"
                   /\ UNCHANGED resp
              ELSE /\ resp' = OuterCatch(o.msg)
                   /\ attempts' = log
                   /\ rpc' = "done"
  /\ UNCHANGED <<req, schedVars, extVars>>

\* replicate.run with the default model returns
FallbackReturns(o) ==
  /\ rpc = "fallback"
  /\ attempts' = [attempts EXCEPT ![2] = Returned(@, o)]
  /\ resp' = (IF o.ok THEN VideoResponse(DEFAULT_MODEL, "used fallback")
              ELSE FallbackCatch(o.msg))
  /\ rpc' = "done"
  /\ UNCHANGED <<req, schedVars, extVars>>

RouteNext ==
  \/ \E img \in ImageUrls : \E id \in ModelIds : Receive(img, id)
  \/ \E o \in Outcomes : FirstReturns(o)
  \/ \E o \in Outcomes : FallbackReturns(o)

SpecRoute == RouteInit /\ [][RouteNext]_vars

(***************************************************************************)
(* The image batch of the Storyboard against the two image routes.         *)
(***************************************************************************)
DefaultImageModel == "black-forest-labs/flux-schnell"
IdeogramCharacter == "ideogram-ai/ideogram-character:5e79783fdb5bb4b1bf267212e64bb28a60cd3bdde00fbf6a1be28df0f55cc4b7"

\* modelId of settings.imageModel: the shipped setting, the routes' default, or empty
ImageModelIds == {"none", DefaultImageModel, "tencent/hunyuan-image-3"}

\* modelConfig?.modelId || 'black-forest-labs/flux-schnell'
ConfiguredImageModel(id) == IF id = "none" THEN DefaultImageModel ELSE id

\* getCharacterReferences() holds a character: generateImage posts to
\* /api/generate-image-with-character, whose first reference has an image
HasCharacterRefs(cs) == \E c \in DOMAIN cs : cs[c].referenceImageUrl # NoAsset

ImageAttempt(id, ok) == [model |-> id, out |-> IF ok THEN "ok" ELSE "error"]

\* the model of the replicate.run the request is waiting for, log being the
\* runs of the request that have returned
RunningImageModel(cs, id, log) ==
  IF HasCharacterRefs(cs) /\ log = <<>> THEN IdeogramCharacter
  ELSE ConfiguredImageModel(id)

\* the failed run was the one inside the inner try of the character route
FallsThrough(cs, log) == HasCharacterRefs(cs) /\ Len(log) = 1

LastAttempt(log) == log[Len(log)]

\* the story of the batch under study: two shots more than one wave, none
\* with an image, opened in the Storyboard
ScenarioJobs == ImageConcurrency + 2

ImagesInit ==
  /\ view = "storyboard" /\ mounted = TRUE /\ enableAudio = TRUE
  /\ shots = [s \in 1 .. ScenarioJobs |-> DefaultShot("storyboard", s)]
  /\ chars \in {<<>>, <<[referenceImageUrl |-> "stored", isGenerating |-> FALSE]>>}
  /\ selected = {} /\ generatingAll = FALSE /\ progress = NoProgress
  /\ bpc = "idle" /\ worklist = <<>> /\ waveStart = 0 /\ completed = 0
  /\ bjobs = <<>> /\ xjobs = {} /\ gestures = 0 /\ resetDone = {"storyboard"}
  /\ issued = FALSE /\ staleAtLoad = FALSE /\ instance = 0 /\ selClosure = {}
  /\ imageModel \in ImageModelIds
  /\ served = [p \in 1 .. ScenarioJobs |-> <<>>]
  /\ RouteIdle /\ CompIdle /\ RestIdle

\* a replicate.run of the request of batch job p returns: the character route
\* falls through to the configured model after its first run failed; any other
\* run ends the request, with the image or with status 500, and the response
\* reaches generateImage
ImageRunReturns(p, ok) ==
  /\ p \in DOMAIN bjobs /\ bjobs[p].pc = "fetch"
  /\ bpc = "wave" /\ ~MicrotaskPending
  /\ LET log == Append(served[p],
                       ImageAttempt(RunningImageModel(chars, imageModel, served[p]), ok))
     IN /\ served' = [served EXCEPT ![p] = log]
        /\ IF ~ok /\ FallsThrough(chars, log)
             THEN UNCHANGED <<schedVars, routeVars, imageModel, compVars, restVars>>
             ELSE JobReturns(p, ok)

ImagesNext ==
  \/ StartBatch
  \/ \E p \in DOMAIN served : \E ok \in BOOLEAN : ImageRunReturns(p, ok)
  \/ WaveEnd
  \/ DelayElapsed

SpecImages == ImagesInit /\ [][ImagesNext]_vars

(***************************************************************************)
(* videoComposer: composeVideos and processVideo over the FFmpeg instance. *)
(***************************************************************************)
\* file names; segment i of the videos argument is segs[i + 1]
InputFile(i) == <<"input.mp4", i>>
ProcessedFile(i) == <<"processed.mp4", i>>
TempAudio == <<"temp_audio.mp3", 0>>
ConcatTxt == <<"concat.txt", 0>>
OutputMp4 == <<"output.mp4", 0>>

\* ffmpeg.writeFile / ffmpeg.deleteFile / ffmpeg.readFile (which throws on a
\* name that is not there)
WriteFile(f, name, data) ==
  [m \in DOMAIN f \cup {name} |-> IF m = name THEN data ELSE f[m]]
DeleteFile(f, name) == [m \in DOMAIN f \ {name} |-> f[m]]
Readable(f, name) == name \in DOMAIN f

\* what a VideoSegment may be: the fetch of url gives a clip, zero bytes, or
\* throws; audioUrl is undefined, a string of at most 10 characters, a data:
\* URL with nothing after the comma, a reference that cannot be decoded or
\* fetched, or one that can; subtitle is a text or undefined
VideoKinds == {"ok", "empty", "fail"}
AudioKinds == {"none", "short", "dataEmpty", "unloadable", "loadable"}
ClipDurations == {2}
SpeechDurations == {1, 3}

Segments ==
  {[video |-> v, vd |-> d, audio |-> a, ad |-> IF a = "loadable" THEN t ELSE 0,
    subtitle |-> c] :
     v \in VideoKinds, d \in ClipDurations, a \in AudioKinds,
     t \in SpeechDurations, c \in BOOLEAN}

SegmentLists == UNION {[1 .. n -> Segments] : n \in 1 .. MaxSegments}

\* audioUrl && audioUrl.length > 10
HasAudio(seg) == seg.audio \notin {"none", "short"}
\* subtitle && subtitle.length > 0
HasSubtitle(seg) == seg.subtitle
\* the try block that loads the audio ends with temp_audio.mp3 written
AudioLoads(seg) == seg.audio = "loadable"

\* processVideo copies the input to the output and returns without an exec
Passthrough_UnlessCaption(seg) == (~HasAudio(seg) \/ ~AudioLoads(seg)) /\ ~HasSubtitle(seg)

\* processVideo copies the input to the output and returns: no audio, or the
\* audio could not be loaded
Passthrough(seg) == ~HasAudio(seg) \/ ~AudioLoads(seg)

\* fetchFile(video.url)
VideoData(seg, i) ==
  [NoData EXCEPT !.size = IF seg.video = "empty" THEN 0 ELSE 1,
                 !.video = <<i>>, !.vcodec = "source", !.dur = seg.vd]
\* the bytes decoded or fetched from audioUrl
AudioData(seg) == [NoData EXCEPT !.size = 1, !.acodec = "mp3", !.dur = seg.ad]

\* the mux command without -shortest
MuxExec_NoShortest(i) ==
  [inputs |-> <<InputFile(i), TempAudio>>,
   opts |-> <<"-c:v", "copy", "-c:a", "aac", "-b:a", "128k",
              "-movflags", "+faststart", "-y">>,
   output |-> ProcessedFile(i)]

\* the two exec calls: files read, options, file written
MuxExec(i) ==
  [inputs |-> <<InputFile(i), TempAudio>>,
   opts |-> <<"-c:v", "copy", "-c:a", "aac", "-b:a", "128k", "-shortest",
              "-movflags", "+faststart", "-y">>,
   output |-> ProcessedFile(i)]
ConcatExec ==
  [inputs |-> <<ConcatTxt>>,
   opts |-> <<"-f", "concat", "-safe", "0", "-c", "copy", "-y">>,
   output |-> OutputMp4]

HasOption(e, o) == \E k \in DOMAIN e.opts : e.opts[k] = o
OptionValue(e, o) ==
  IF \E k \in 1 .. Len(e.opts) - 1 : e.opts[k] = o
    THEN e.opts[(CHOOSE k \in 1 .. Len(e.opts) - 1 : e.opts[k] = o) + 1]
    ELSE "none"

\* what FFmpeg writes for a mux command that succeeds: the frames of the first
\* input, copied or encoded as -c:v says, the sound of the second encoded as
\* -c:a says, cut at the shorter input under -shortest
MuxOutput(f, e) ==
  LET v == f[e.inputs[1]]
      a == f[e.inputs[2]]
  IN [NoData EXCEPT
        !.size = 1,
        !.video = v.video,
        !.vcodec = IF OptionValue(e, "-c:v") = "copy" THEN v.vcodec
                   ELSE OptionValue(e, "-c:v"),
        !.acodec = OptionValue(e, "-c:a"),
        !.dur = IF HasOption(e, "-shortest") THEN Min(v.dur, a.dur)
                ELSE IF v.dur < a.dur THEN a.dur ELSE v.dur]

\* what FFmpeg writes for the concat demuxer: the listed files one after another
RECURSIVE JoinFrom(_, _, _)
JoinFrom(f, list, k) ==
  IF k > Len(list) THEN [NoData EXCEPT !.size = 1]
  ELSE LET rest == JoinFrom(f, list, k + 1)
           clip == f[list[k]]
       IN [rest EXCEPT !.video = clip.video \o rest.video,
                       !.dur = clip.dur + rest.dur,
                       !.vcodec = clip.vcodec,
                       !.acodec = IF clip.acodec # "none" THEN clip.acodec ELSE rest.acodec]
ConcatOutput(f, e) == JoinFrom(f, f[e.inputs[1]].text, 1)

\* how an exec may end: output written, written with zero bytes, not written,
\* or the call rejects
ExecOutcomes == {"ok", "empty", "nofile", "throw"}

\* one export: a list of videos handed to composeVideos of a freshly loaded page
ComposeInit ==
  /\ SchedIdle /\ RouteIdle /\ ImgIdle /\ RestIdle
  /\ segs \in SegmentLists
  /\ ffmpegInstance = "null"
  /\ fs = <<>>
  /\ cpc = "idle"
  /\ spc = <<>>
  /\ processedFiles = <<>>
  /\ execs = <<>>
  /\ blob = NoBlob

SegmentIds == 0 .. Len(segs) - 1
Rejected(msg) == [NoBlob EXCEPT !.status = "error", !.error = msg]

\* composeVideos up to the loop: loadFFmpeg, which may reject
ComposeVideos(loaded) ==
  /\ cpc = "idle"
  /\ IF loaded
       THEN /\ ffmpegInstance' = "ffmpeg"
            /\ cpc' = "loop"
            /\ spc' = [i \in SegmentIds |-> "todo"]
            /\ UNCHANGED blob
       ELSE /\ cpc' = "failed"
            /\ blob' = Rejected("load")
            /\ UNCHANGED <<ffmpegInstance, spc>>
  /\ UNCHANGED <<segs, fs, processedFiles, execs, schedVars, routeVars, imgVars, restVars>>

\* the loop reaches iteration i only after the iterations before it returned
Awaited_FireAndForget(st, i) == TRUE

\* for (i ...) { ...; await processVideo(...); await ffmpeg.deleteFile(...); ... }
Awaited(st, i) == \A j \in DOMAIN st : j < i => st[j] = "done"

\* iteration i of the loop up to fetchFile(video.url)
StartSegment(i) ==
  /\ cpc = "loop"
  /\ i \in DOMAIN spc /\ spc[i] = "todo"
  /\ \A j \in DOMAIN spc : j < i => spc[j] # "todo"
  /\ Awaited(spc, i)
  /\ spc' = [spc EXCEPT ![i] = "fetch"]
  /\ UNCHANGED <<segs, ffmpegInstance, fs, cpc, processedFiles, execs, blob,
                 schedVars, routeVars, imgVars, restVars>>

\* an error thrown in iteration i leaves composeVideos through its catch
Throws(i, msg) ==
  /\ spc' = [spc EXCEPT ![i] = "failed"]
  /\ cpc' = "failed"
  /\ blob' = Rejected(msg)
  /\ UNCHANGED <<processedFiles, execs>>

\* processedFiles.unshift(processedFile)
Listed_Prepended(pf, name) == <<name>> \o pf

\* processedFiles.push(processedFile)
Listed(pf, name) == Append(pf, name)

\* the concat command is issued for a single file as well
SingleClip_Never(pf) == FALSE

\* processedFiles.length === 1
SingleClip(pf) == Len(pf) = 1

\* the loop that reads the processed files back is left out
AllListed_Unchecked(f, pf) == TRUE

\* for (const file of processedFiles) { await ffmpeg.readFile(file) } does not throw
AllListed(f, pf) == \A k \in DOMAIN pf : Readable(f, pf[k])

\* the files all read back: the single clip is returned, or the concat list is
\* written and the concat command issued
AfterLoop(f, pf) ==
  IF ~AllListed(f, pf)
    THEN /\ cpc' = "failed"
         /\ blob' = Rejected("Processed file missing")
         /\ fs' = f
         /\ UNCHANGED execs
    ELSE IF SingleClip(pf)
      THEN /\ cpc' = "done"
           /\ blob' = [NoBlob EXCEPT !.status = "blob", !.data = f[pf[1]]]
           /\ fs' = DeleteFile(f, pf[1])
           /\ UNCHANGED execs
      ELSE /\ cpc' = "concat"
           /\ fs' = WriteFile(f, ConcatTxt, [NoData EXCEPT !.size = 1, !.text = pf])
           /\ execs' = Append(execs, ConcatExec)
           /\ UNCHANGED blob

\* processVideo returned for iteration i with the file system f: the input is
\* deleted, the processed file listed, and the loop goes on or ends
FinishSegment(f, i) ==
  LET f1 == DeleteFile(f, InputFile(i))
      pf == Listed(processedFiles, ProcessedFile(i))
  IN /\ spc' = [spc EXCEPT ![i] = "done"]
     /\ processedFiles' = pf
     /\ IF i < Len(segs) - 1
          THEN /\ fs' = f1
               /\ UNCHANGED <<cpc, execs, blob>>
          ELSE AfterLoop(f1, pf)

\* fetchFile(video.url) returns in iteration i: the input is written and
\* processVideo runs up to its return or to ffmpeg.exec
VideoFetched(i) ==
  /\ i \in DOMAIN spc /\ spc[i] = "fetch"
  /\ LET seg == segs[i + 1]
         f1 == WriteFile(fs, InputFile(i), VideoData(seg, i))
     IN IF seg.video = "fail"
          THEN Throws(i, "fetch") /\ UNCHANGED fs
          ELSE IF Passthrough(seg)
            THEN FinishSegment(WriteFile(f1, ProcessedFile(i), f1[InputFile(i)]), i)
            ELSE /\ fs' = WriteFile(f1, TempAudio, AudioData(seg))
                 /\ execs' = Append(execs, MuxExec(i))
                 /\ spc' = [spc EXCEPT ![i] = "exec"]
                 /\ UNCHANGED <<cpc, processedFiles, blob>>
  /\ UNCHANGED <<segs, ffmpegInstance, schedVars, routeVars, imgVars, restVars>>

\* ffmpeg.exec of processVideo returns in iteration i: the output is read back
\* and temp_audio.mp3 deleted, or the iteration throws
ExecReturns(i, o) ==
  /\ i \in DOMAIN spc /\ spc[i] = "exec"
  /\ CASE o = "ok" ->
            FinishSegment(DeleteFile(WriteFile(fs, ProcessedFile(i), MuxOutput(fs, MuxExec(i))),
                                     TempAudio), i)
       [] o = "empty" ->
            /\ Throws(i, "Output file not created")
            /\ fs' = WriteFile(fs, ProcessedFile(i), NoData)
       [] o = "nofile" -> Throws(i, "Output file not created") /\ UNCHANGED fs
       [] OTHER -> Throws(i, "exec") /\ UNCHANGED fs
  /\ UNCHANGED <<segs, ffmpegInstance, schedVars, routeVars, imgVars, restVars>>

\* ffmpeg.exec of the concat command returns: output.mp4 is read, the files
\* are deleted and the Blob returned, or composeVideos throws
ConcatReturns(o) ==
  /\ cpc = "concat"
  /\ IF o \in {"ok", "empty"}
       THEN /\ blob' = [NoBlob EXCEPT !.status = "blob",
                          !.data = IF o = "ok" THEN ConcatOutput(fs, ConcatExec) ELSE NoData]
            /\ fs' = [m \in DOMAIN fs \ ({ConcatTxt, OutputMp4}
                        \cup {processedFiles[k] : k \in DOMAIN processedFiles}) |-> fs[m]]
            /\ cpc' = "done"
       ELSE /\ blob' = Rejected(IF o = "throw" THEN "exec" ELSE "read")
            /\ cpc' = "failed"
            /\ UNCHANGED fs
  /\ UNCHANGED <<segs, ffmpegInstance, spc, processedFiles, execs,
                 schedVars, routeVars, imgVars, restVars>>

ComposeNext ==
  \/ \E loaded \in BOOLEAN : ComposeVideos(loaded)
  \/ \E i \in DOMAIN spc : StartSegment(i)
  \/ \E i \in DOMAIN spc : VideoFetched(i)
  \/ \E i \in DOMAIN spc : \E o \in ExecOutcomes : ExecReturns(i, o)
  \/ \E o \in ExecOutcomes : ConcatReturns(o)

SpecCompose == ComposeInit /\ [][ComposeNext]_vars

\* the FFmpeg instance is one per page: another composeVideos call, started by
\* the export dialog while this export is in its loop, ends and deletes its
\* processed files, which carry the same names
OtherExportCleansUp(name) ==
  /\ cpc = "loop"
  /\ \E k \in DOMAIN processedFiles : processedFiles[k] = name
  /\ Readable(fs, name)
  /\ fs' = DeleteFile(fs, name)
  /\ UNCHANGED <<segs, ffmpegInstance, cpc, spc, processedFiles, execs, blob,
                 schedVars, routeVars, imgVars, restVars>>

SharedNext ==
  \/ ComposeNext
  \/ \E i \in DOMAIN spc : OtherExportCleansUp(ProcessedFile(i))

SpecComposeShared == ComposeInit /\ [][SharedNext]_vars

(***************************************************************************)
(* audioExtender: extendAudioToTargetDuration pads a speech track with     *)
(* silence and audioBufferToDataUrl writes it as a WAV file.               *)
(***************************************************************************)
\* a sample n stands for the float n / SampleScale, a duration t for
\* t / TargetScale seconds
Samples == {-(SampleScale + 1), 0, 1, SampleScale}
Rates == 1 .. MaxRate
Targets == 1 .. MaxTarget

Tracks(c) == UNION {[1 .. c -> [1 .. n -> Samples]] : n \in 1 .. MaxFrames}

\* what decodeAudioData can make of an input: mono or stereo
Channels == {1, 2}

DecodedBuffers ==
  UNION {{[numberOfChannels |-> c, sampleRate |-> r, channelData |-> d] :
            r \in Rates, d \in Tracks(c)} : c \in Channels}

\* the audioDataUrl arguments: base64 tells whether atob accepts the part
\* after the comma, audio is what the bytes hold
AudioDataUrls ==
  {[type |-> "audio/mpeg", base64 |-> ok, audio |-> b] :
     ok \in BOOLEAN, b \in DecodedBuffers}

\* AudioBuffer.length
FrameCount(b) == Len(b.channelData[1])

\* originalDuration >= targetDuration, with duration = length / sampleRate
LongEnough(b, target) ==
  FrameCount(b) * TargetScale >= target * b.sampleRate

\* Math.ceil(targetDuration * sampleRate)
ExtendedLength(b, target) ==
  (target * b.sampleRate + TargetScale - 1) \div TargetScale

\* createBuffer gives zeroed channels, extendedData.set(originalData) copies
\* the original from index 0
ExtendedData_PadsFront(originalData, length) ==
  [i \in 1 .. length |->
     IF i > length - Len(originalData) THEN originalData[i - (length - Len(originalData))]
     ELSE 0]

ExtendedData(originalData, length) ==
  [i \in 1 .. length |-> IF i <= Len(originalData) THEN originalData[i] ELSE 0]

ExtendedBuffer(b, target) ==
  [numberOfChannels |-> b.numberOfChannels,
   sampleRate |-> b.sampleRate,
   channelData |-> [c \in 1 .. b.numberOfChannels |->
                      ExtendedData(b.channelData[c], ExtendedLength(b, target))]]

\* DataView setters, little-endian
Uint16LE(v) == <<v % 256, (v \div 256) % 256>>
Uint32LE(v) == <<v % 256, (v \div 256) % 256, (v \div 65536) % 256, (v \div 16777216) % 256>>

\* setInt16 of a number: ToInt16 drops the fraction towards zero and wraps
ToInt16(num, den) ==
  (IF num >= 0 THEN num \div den ELSE -((-num) \div den)) % 65536

Int16BE(num, den) == <<ToInt16(num, den) \div 256, ToInt16(num, den) % 256>>

Int16LE(num, den) == <<ToInt16(num, den) % 256, ToInt16(num, den) \div 256>>

\* Math.max(-1, Math.min(1, sample))
Clamp(sample) ==
  IF sample > SampleScale THEN SampleScale
  ELSE IF sample < -SampleScale THEN -SampleScale ELSE sample

\* writeString: the char codes of the four chunk names
RIFF == <<82, 73, 70, 70>>
WAVE == <<87, 65, 86, 69>>
FmtChunk == <<102, 109, 116, 32>>
DataChunk == <<100, 97, 116, 97>>

DataLength(b) == FrameCount(b) * b.numberOfChannels * 2

\* the header writes of audioBufferToDataUrl as <<offset, bytes>>
HeaderWrites(b) ==
  << <<0, RIFF>>,
     <<4, Uint32LE(36 + DataLength(b))>>,
     <<8, WAVE>>,
     <<12, FmtChunk>>,
     <<16, Uint32LE(16)>>,
     <<20, Uint16LE(1)>>,
     <<22, Uint16LE(b.numberOfChannels)>>,
     <<24, Uint32LE(b.sampleRate)>>,
     <<28, Uint32LE(b.sampleRate * b.numberOfChannels * 2)>>,
     <<32, Uint16LE(b.numberOfChannels * 2)>>,
     <<34, Uint16LE(16)>>,
     <<36, DataChunk>>,
     <<40, Uint32LE(DataLength(b))>> >>

\* the sample loop: frame by frame, channel by channel, offset += 2
SampleWrites(b) ==
  [w \in 1 .. FrameCount(b) * b.numberOfChannels |->
     <<DataOffset + 2 * (w - 1),
       Int16LE(Clamp(b.channelData[((w - 1) % b.numberOfChannels) + 1]
                                  [((w - 1) \div b.numberOfChannels) + 1]) * Int16Max,
               SampleScale)>>]

Covers(write, k) == k >= write[1] /\ k < write[1] + Len(write[2])

\* byte k (from 0) of a zeroed ArrayBuffer after the writes, in order
ByteAfter(writes, k) ==
  LET hit == {w \in DOMAIN writes : Covers(writes[w], k)}
  IN  IF hit = {} THEN 0
      ELSE LET last == CHOOSE w \in hit : \A v \in hit : v <= w
           IN  writes[last][2][k - writes[last][1] + 1]

\* audioBufferToDataUrl up to the Blob
WavBuffer(b) ==
  [k \in 1 .. WavHeader + DataLength(b) |->
     ByteAfter(HeaderWrites(b) \o SampleWrites(b), k - 1)]

WavDataUrl(b) == [type |-> "audio/wav", bytes |-> WavBuffer(b)]

NormInit ==
  /\ SchedIdle /\ RouteIdle /\ ImgIdle /\ CompIdle
  /\ CacheIdle /\ CatIdle /\ cjobs = {}
  /\ NormIdle

\* the catch clause: the original audio is the value of the call
Caught_Rethrows(error) ==
  /\ caught' = error
  /\ extended' = NoUrl
  /\ epc' = "rejected"

Caught(error) ==
  /\ caught' = error
  /\ extended' = audioDataUrl'
  /\ epc' = "resolved"

\* the call up to the await of decodeAudioData: atob and new AudioContext()
\* may throw
ExtendAudio(url, target, context) ==
  /\ epc = "idle"
  /\ audioDataUrl' = url
  /\ targetDuration' = target
  /\ IF ~url.base64 THEN Caught("atob")
     ELSE IF ~context THEN Caught("AudioContext")
     ELSE epc' = "decoding" /\ UNCHANGED <<extended, caught>>
  /\ UNCHANGED <<extendedBuffer, schedVars, routeVars, imgVars, compVars,
                 cacheVars, catVars, cjobs>>

\* decodeAudioData settles; on success up to the await of audioBufferToDataUrl
DecodeReturns(ok) ==
  /\ epc = "decoding"
  /\ UNCHANGED <<audioDataUrl, targetDuration>>
  /\ IF ~ok THEN Caught("decodeAudioData") /\ UNCHANGED extendedBuffer
     ELSE IF LongEnough(audioDataUrl.audio, targetDuration)
     THEN /\ extended' = audioDataUrl
          /\ epc' = "resolved"
          /\ UNCHANGED <<extendedBuffer, caught>>
     ELSE /\ extendedBuffer' = ExtendedBuffer(audioDataUrl.audio, targetDuration)
          /\ epc' = "encoding"
          /\ UNCHANGED <<extended, caught>>
  /\ UNCHANGED <<schedVars, routeVars, imgVars, compVars, cacheVars, catVars, cjobs>>

\* the FileReader of blobToBase64 settles
ReaderReturns(ok) ==
  /\ epc = "encoding"
  /\ UNCHANGED <<audioDataUrl, targetDuration, extendedBuffer>>
  /\ IF ~ok THEN Caught("FileReader")
     ELSE /\ extended' = WavDataUrl(extendedBuffer)
          /\ epc' = "resolved"
          /\ UNCHANGED caught
  /\ UNCHANGED <<schedVars, routeVars, imgVars, compVars, cacheVars, catVars, cjobs>>

NormNext ==
  \/ \E url \in AudioDataUrls : \E target \in Targets : \E context \in BOOLEAN :
       ExtendAudio(url, target, context)
  \/ \E ok \in BOOLEAN : DecodeReturns(ok)
  \/ \E ok \in BOOLEAN : ReaderReturns(ok)

SpecNorm == NormInit /\ [][NormNext]_vars

(***************************************************************************)
(* modelCache: the ModelCache singleton, called with any key, and the      *)
(* DELETE handler of the cache route.                                      *)
(***************************************************************************)
OPENROUTER_KEY == "openrouter_models"
REPLICATE_KEY == "replicate_models_all"
CacheKeys == {"", OPENROUTER_KEY, REPLICATE_KEY}
CacheData == {"list1", "list2"}
TTLs == 1 .. MaxTTL

\* an optional key argument: clear(), clear(key), searchParams.get('key')
NoKey == [given |-> FALSE, key |-> ""]
KeyArgs == {NoKey} \cup {[given |-> TRUE, key |-> k] : k \in CacheKeys}

\* if (key): undefined, null and the empty string are falsy
Truthy(arg) == arg.given /\ arg.key # ""

\* Map.delete of some keys
Without(c, keys) == [k \in DOMAIN c \ keys |-> c[k]]

\* ModelCache.set
AfterSet(c, key, data, ttl, t) ==
  [k \in DOMAIN c \cup {key} |->
     IF k = key THEN [data |-> data, timestamp |-> t, expiresAt |-> t + ttl]
     ELSE c[k]]

\* Date.now() > entry.expiresAt
Expired_AtExpiry(entry, t) == t >= entry.expiresAt

Expired(entry, t) == t > entry.expiresAt

\* ModelCache.get: the value returned and the map left behind
GetValue(c, key, t) ==
  IF key \notin DOMAIN c THEN "null"
  ELSE IF Expired(c[key], t) THEN "null"
  ELSE c[key].data

AfterGet(c, key, t) ==
  IF key \in DOMAIN c /\ Expired(c[key], t) THEN Without(c, {key}) ELSE c

\* ModelCache.has
HasValue(c, key, t) == key \in DOMAIN c /\ ~Expired(c[key], t)

\* ModelCache.clear
AfterClear(c, arg) == IF Truthy(arg) THEN Without(c, {arg.key}) ELSE <<>>

\* ModelCache.cleanup
AfterCleanup(c, t) == Without(c, {k \in DOMAIN c : Expired(c[k], t)})

\* ModelCache.getAge
GetAge(c, key, t) == IF key \notin DOMAIN c THEN -1 ELSE t - c[key].timestamp

\* what a call returned: the method, its key argument and the value
CallRecord(op, arg, value) == [op |-> op, arg |-> arg, value |-> value]
Keyed(key) == [given |-> TRUE, key |-> key]

CacheInit ==
  /\ SchedIdle /\ RouteIdle /\ ImgIdle /\ CompIdle
  /\ NormIdle /\ CatIdle /\ cjobs = {}
  /\ CacheIdle

CacheFrame ==
  UNCHANGED <<schedVars, routeVars, imgVars, compVars, normVars, catVars, cjobs>>

Set(key, data, ttl) ==
  /\ cache' = AfterSet(cache, key, data, ttl, now)
  /\ got' = CallRecord("set", Keyed(key), "undefined")
  /\ UNCHANGED now
  /\ CacheFrame

Get(key) ==
  /\ cache' = AfterGet(cache, key, now)
  /\ got' = CallRecord("get", Keyed(key), GetValue(cache, key, now))
  /\ UNCHANGED now
  /\ CacheFrame

Has(key) ==
  /\ cache' = AfterGet(cache, key, now)
  /\ got' = CallRecord("has", Keyed(key), IF HasValue(cache, key, now) THEN "true" ELSE "false")
  /\ UNCHANGED now
  /\ CacheFrame

Clear(arg) ==
  /\ cache' = AfterClear(cache, arg)
  /\ got' = CallRecord("clear", arg, "undefined")
  /\ UNCHANGED now
  /\ CacheFrame

\* cleanup, from getStats or from the five-minute interval
Cleanup ==
  /\ cache' = AfterCleanup(cache, now)
  /\ got' = CallRecord("cleanup", NoKey, "undefined")
  /\ UNCHANGED now
  /\ CacheFrame

\* DELETE /api/models/cache with or without ?key=
Delete(param) ==
  /\ cache' = (IF Truthy(param) THEN AfterClear(cache, param) ELSE AfterClear(cache, NoKey))
  /\ got' = CallRecord("DELETE", param, IF Truthy(param) THEN "Cache cleared for key" ELSE "All cache cleared")
  /\ UNCHANGED now
  /\ CacheFrame

\* the clock of the server moves on
Tick ==
  /\ now < MaxClock
  /\ now' = now + 1
  /\ UNCHANGED <<cache, got>>
  /\ CacheFrame

CacheNext ==
  \/ \E key \in CacheKeys : \E data \in CacheData : \E ttl \in TTLs : Set(key, data, ttl)
  \/ \E key \in CacheKeys : Get(key)
  \/ \E key \in CacheKeys : Has(key)
  \/ \E arg \in KeyArgs : Clear(arg)
  \/ Cleanup
  \/ \E param \in KeyArgs : Delete(param)
  \/ Tick

SpecCache == CacheInit /\ [][CacheNext]_vars

(***************************************************************************)
(* Catalog endpoints: GET of the OpenRouter and of the Replicate model     *)
(* list over the shared modelCache, one request at a time.                 *)
(***************************************************************************)
Endpoints == {"openrouter", "replicate"}
Categories == {"image", "video", "all"}

\* CACHE_KEY / cacheKey and CACHE_TTL of the two routes, in hours
CatalogKey(endpoint) == IF endpoint = "openrouter" THEN OPENROUTER_KEY ELSE REPLICATE_KEY
CatalogTTL(endpoint) == IF endpoint = "openrouter" THEN OPENROUTER_TTL ELSE REPLICATE_TTL

\* what the upstream fetch of a request comes to: every page answered, the
\* first page failed, a later page failed, or a page held malformed models
UpstreamOutcomes(endpoint) ==
  IF endpoint = "openrouter" THEN {"ok", "error"}
  ELSE {"ok", "error", "partial", "malformed"}

\* the categorized list made of what was fetched
Categorized(outcome, data) == IF outcome = "partial" THEN "part of " \o data ELSE data

\* result: the part of the categorized list the category parameter selects
Selected(endpoint, category, data) ==
  IF endpoint = "openrouter" THEN [category |-> "all", list |-> data]
  ELSE [category |-> category, list |-> data]

NoModels == [category |-> "none", list |-> "none"]

CachedResponse(models, warning) ==
  [status |-> 200, success |-> TRUE, models |-> models, cached |-> TRUE,
   warning |-> warning, error |-> "none"]

FreshResponse(models) ==
  [status |-> 200, success |-> TRUE, models |-> models, cached |-> FALSE,
   warning |-> "none", error |-> "none"]

FailureResponse(error) ==
  [status |-> 500, success |-> FALSE, models |-> NoModels, cached |-> FALSE,
   warning |-> "none", error |-> error]

\* the warning of the catch clause of each route
StaleWarning(endpoint) ==
  IF endpoint = "openrouter" THEN "Using cached data due to fetch error"
  ELSE "Using cached data due to error"

\* the catch clause of GET: the cached list if get still has one
CatchResponse(endpoint, c, t) ==
  IF GetValue(c, CatalogKey(endpoint), t) # "null"
  THEN CachedResponse(Selected(endpoint, "all", GetValue(c, CatalogKey(endpoint), t)),
                      StaleWarning(endpoint))
  ELSE FailureResponse("Failed to fetch models")

CatalogInit ==
  /\ SchedIdle /\ RouteIdle /\ ImgIdle /\ CompIdle
  /\ NormIdle /\ CacheIdle /\ cjobs = {}
  /\ CatIdle

CatalogFrame ==
  UNCHANGED <<schedVars, routeVars, imgVars, compVars, normVars, cjobs, now, got>>

\* GET up to the await of the upstream fetch
CatalogGet(endpoint, refresh, category, token) ==
  /\ catPc \in {"idle", "responded"}
  /\ catReq' = [endpoint |-> endpoint, refresh |-> refresh, category |-> category,
                token |-> token, upstream |-> "none"]
  /\ LET key == CatalogKey(endpoint)
         cached == IF refresh THEN "null" ELSE GetValue(cache, key, now)
     IN  /\ cache' = (IF refresh THEN cache ELSE AfterGet(cache, key, now))
         /\ IF cached # "null"
            THEN /\ catResp' = CachedResponse(Selected(endpoint, category, cached), "none")
                 /\ catPc' = "responded"
            ELSE IF endpoint = "replicate" /\ ~token
            THEN /\ catResp' = FailureResponse("REPLICATE_API_TOKEN not configured")
                 /\ catPc' = "responded"
            ELSE /\ catPc' = "fetching"
                 /\ UNCHANGED catResp
  /\ CatalogFrame

\* the upstream fetch settles and GET runs to its response
FetchReturns(outcome, data) ==
  /\ catPc = "fetching"
  /\ outcome \in UpstreamOutcomes(catReq.endpoint)
  /\ catPc' = "responded"
  /\ catReq' = [catReq EXCEPT !.upstream = outcome]
  /\ LET endpoint == catReq.endpoint
         key == CatalogKey(endpoint)
     IN  IF outcome \in {"ok", "partial"}
         THEN /\ cache' = AfterSet(cache, key, Categorized(outcome, data), CatalogTTL(endpoint), now)
              /\ catResp' = FreshResponse(Selected(endpoint, catReq.category, Categorized(outcome, data)))
         ELSE IF endpoint = "replicate" /\ outcome = "error"
         THEN /\ catResp' = FailureResponse("No models fetched from Replicate")
              /\ UNCHANGED cache
         ELSE /\ cache' = AfterGet(cache, key, now)
              /\ catResp' = CatchResponse(endpoint, cache, now)
  /\ CatalogFrame

CatalogNext ==
  \/ \E endpoint \in Endpoints : \E refresh \in BOOLEAN : \E category \in Categories :
       \E token \in BOOLEAN : CatalogGet(endpoint, refresh, category, token)
  \/ \E outcome \in UpstreamOutcomes("replicate") : \E data \in CacheData :
       FetchReturns(outcome, data)
  \/ \E param \in KeyArgs : Delete(param)
  \/ Tick

SpecCatalog == CatalogInit /\ [][CatalogNext]_vars

(***************************************************************************)
(* Character references: generateCharacterImage of CharacterGenerator and  *)
(* CharacterConfirmation over the character list of the StoryStore.        *)
(***************************************************************************)
CharacterNames == {"Ann", "Bob", "Cy"}

\* a character of the story without reference image; prompt tells whether it
\* has a visual description
NewCharacter(name, prompt) ==
  [name |-> name, prompt |-> prompt, referenceImageUrl |-> NoAsset, isGenerating |-> FALSE]

\* data.imageUrl of /api/generate-character for a characterName
ImageOf(name) == "image of " \o name

\* StoryStore.updateCharacter
UpdateCharacter(cs, index, image, flag) ==
  IF index \in DOMAIN cs
  THEN [cs EXCEPT ![index] = [@ EXCEPT !.referenceImageUrl = image, !.isGenerating = flag]]
  ELSE cs

\* StoryStore.setGeneratingCharacter
SetGeneratingCharacter(cs, index, flag) ==
  IF index \in DOMAIN cs THEN [cs EXCEPT ![index].isGenerating = flag] ELSE cs

\* StoryStore.removeCharacter: characters.splice(index, 1)
Splice(cs, index) ==
  [i \in 1 .. Len(cs) - 1 |-> IF i < index THEN cs[i] ELSE cs[i + 1]]

\* the story as the script step leaves it: two or three characters
CharacterLists ==
  {cs \in UNION {[1 .. n -> {NewCharacter(name, TRUE) : name \in CharacterNames}] : n \in 2 .. 3} :
     \A i, j \in DOMAIN cs : cs[i].name = cs[j].name => i = j}

CharactersInit ==
  /\ RouteIdle /\ ImgIdle /\ CompIdle /\ NormIdle /\ CacheIdle /\ CatIdle
  /\ view = "characters" /\ mounted = TRUE /\ enableAudio = FALSE
  /\ shots = <<FreshShot>>
  /\ chars \in CharacterLists
  /\ selected = {} /\ generatingAll = FALSE /\ progress = NoProgress
  /\ bpc = "idle" /\ worklist = <<>> /\ waveStart = 0 /\ completed = 0
  /\ bjobs = <<>> /\ xjobs = {} /\ gestures = 0 /\ resetDone = {}
  /\ issued = FALSE /\ staleAtLoad = FALSE /\ instance = 0 /\ selClosure = {}
  /\ cjobs = {}

CharactersFrame ==
  UNCHANGED <<view, mounted, shots, enableAudio, selected, generatingAll, progress, bpc,
              worklist, waveStart, completed, bjobs, xjobs, resetDone, issued,
              staleAtLoad, instance, selClosure, routeVars, imgVars, compVars,
              normVars, cacheVars, catVars>>

\* generateCharacterImage up to the await of fetch; index counts from 1
GenerateCharacterImage(index) ==
  /\ gestures < MaxCharacterGestures
  /\ index \in DOMAIN chars
  /\ gestures' = gestures + 1
  /\ IF ~chars[index].prompt
     THEN UNCHANGED <<chars, cjobs>>
     ELSE /\ chars' = SetGeneratingCharacter(chars, index, TRUE)
          /\ cjobs' = cjobs \cup {[id |-> gestures + 1, index |-> index,
                                    character |-> chars[index].name]}
  /\ CharactersFrame

\* the response arrives: updateCharacter, or setGeneratingCharacter in the catch
CharacterReturns(j, ok) ==
  /\ j \in cjobs
  /\ cjobs' = cjobs \ {j}
  /\ chars' = (IF ok THEN UpdateCharacter(chars, j.index, ImageOf(j.character), FALSE)
               ELSE SetGeneratingCharacter(chars, j.index, FALSE))
  /\ UNCHANGED gestures
  /\ CharactersFrame

\* StoryStore.addCharacter
AddCharacter(name, prompt) ==
  /\ gestures < MaxCharacterGestures
  /\ \A i \in DOMAIN chars : chars[i].name # name
  /\ gestures' = gestures + 1
  /\ chars' = Append(chars, NewCharacter(name, prompt))
  /\ UNCHANGED cjobs
  /\ CharactersFrame

\* StoryStore.removeCharacter
RemoveCharacter(index) ==
  /\ gestures < MaxCharacterGestures
  /\ index \in DOMAIN chars
  /\ gestures' = gestures + 1
  /\ chars' = Splice(chars, index)
  /\ UNCHANGED cjobs
  /\ CharactersFrame

CharactersNext ==
  \/ \E index \in 1 .. 3 : GenerateCharacterImage(index)
  \/ \E j \in cjobs : \E ok \in BOOLEAN : CharacterReturns(j, ok)
  \/ \E name \in CharacterNames : \E prompt \in BOOLEAN : AddCharacter(name, prompt)
  \/ \E index \in 1 .. 3 : RemoveCharacter(index)

SpecCharacters == CharactersInit /\ [][CharactersNext]_vars

(***************************************************************************)
(* Properties of the batches.                                              *)
(***************************************************************************)
KindOfBatch == BatchKind(view)
Jobs == DOMAIN bjobs
Failed(p) == bjobs[p].res = "error"
Succeeded(p) == bjobs[p].res = "ok"
TwoWaves == Len(worklist) > Concurrency(KindOfBatch)

\* the ceilings the README and the spec give: 5 images, 3 videos, 10 audio
Ceiling == CASE view = "storyboard" -> 5 [] view = "edit" -> 3 [] OTHER -> 10

\* C1: when a batch over N jobs finishes, exactly N completions were counted
\* (completed = total) and every job of the worklist is among them, also
\* when jobs failed
C1_EveryJobCounted ==
  bpc = "done" =>
    /\ completed = Len(worklist)
    /\ \A p \in 1 .. Len(worklist) : p \in Jobs /\ bjobs[p].pc = "counted"

C1_Witness ==
  /\ bpc = "done" /\ view = "audio" /\ TwoWaves
  /\ \E p \in Jobs : Failed(p)
  /\ \E p \in Jobs : Succeeded(p)
  /\ completed = Len(worklist)

\* C2: at most 5 image jobs, 3 video jobs, 10 audio jobs of a batch are
\* started and not yet completed
C2_WithinCeiling ==
  Cardinality({p \in Jobs : bjobs[p].pc = "fetch"}) <= Ceiling

C2_Witness ==
  /\ view = "edit" /\ bpc = "wave" /\ TwoWaves
  /\ Cardinality({p \in Jobs : bjobs[p].pc = "fetch"}) = 3

\* positions whose job function is called in this step
NewlyStarted ==
  {p \in DOMAIN bjobs' :
     /\ bjobs'[p].pc # "pending"
     /\ p \notin DOMAIN bjobs \/ bjobs[p].pc = "pending"}
AlreadyStarted == {p \in Jobs : bjobs[p].pc # "pending"}

\* C3: the worklist is cut in order into consecutive waves of the concurrency
\* limit; the jobs of a wave start together, and those of the next wave start
\* only when every job before them has completed and the inter-wave timer,
\* set after that wave, has fired
C3_WavesInOrder ==
  [][NewlyStarted # {} =>
       LET a == Cardinality(AlreadyStarted)
       IN /\ NewlyStarted = (a + 1) .. Min(a + Ceiling, Len(worklist'))
          /\ a % Ceiling = 0
          /\ \A q \in AlreadyStarted : bjobs[q].pc = "counted"
          /\ a > 0 => bpc = "delay"]_vars

C3_Witness ==
  /\ view = "storyboard" /\ bpc = "wave" /\ waveStart = 5
  /\ bjobs[6].pc = "fetch"
  /\ \E p \in 1 .. 5 : Failed(p)

\* C4: a failed job cancels nothing: when the batch ends every job of the
\* worklist has run to its own result, and while it runs no job that was
\* started is dropped
C4_FailureCancelsNothing ==
  (\E p \in Jobs : Failed(p)) =>
    /\ bpc = "done" => \A q \in Jobs : bjobs[q].res \in {"ok", "error", "skipped"}
    /\ bpc = "delay" => \A q \in AlreadyStarted : bjobs[q].res \in {"ok", "error", "skipped"}
    /\ \A q \in Jobs : bjobs[q].pc = "fetch" => bpc = "wave"

C4_Witness ==
  /\ bpc = "done" /\ view = "edit" /\ TwoWaves
  /\ Failed(1)
  /\ \E q \in Jobs : q > 3 /\ Succeeded(q)

\* C5: in the step that counts a batch job, the flag of its shot is false;
\* after a success the asset reference is the returned asset, after a
\* failure it is what it was
C5_EntityBeforeProgress ==
  [][\A p \in Jobs \cap DOMAIN bjobs' :
       bjobs[p].pc = "fetch" /\ bjobs'[p].pc = "counted" =>
         LET s == worklist[p]
         IN /\ progress'.current = progress.current + 1
            /\ ~FlagOf(shots'[s], KindOfBatch)
            /\ bjobs'[p].res = "ok" => AssetOf(shots'[s], KindOfBatch) = "batch"
            /\ bjobs'[p].res = "error" =>
                 AssetOf(shots'[s], KindOfBatch) = AssetOf(shots[s], KindOfBatch)]_vars

C5_Witness ==
  /\ bpc = "wave" /\ view = "storyboard"
  /\ \E p \in Jobs : Failed(p) /\ ~shots[worklist[p]].isGenerating
                     /\ shots[worklist[p]].imageUrl = NoAsset
  /\ \E p \in Jobs : Succeeded(p) /\ ~shots[worklist[p]].isGenerating
                     /\ shots[worklist[p]].imageUrl = "batch"
  /\ progress.current = 2

\* jobs of kind k with a request in flight for shot s
InFlight(k, s) ==
  Cardinality({p \in Jobs : bjobs[p].pc = "fetch" /\ worklist[p] = s /\ KindOfBatch = k})
  + Cardinality({j \in xjobs : j.kind = k /\ j.shot = s})

\* C6: no two jobs of the same kind are in flight for the same shot
C6_NoTwoJobsOnOneShot ==
  \A k \in Kinds : \A s \in DOMAIN shots : InFlight(k, s) <= 1

C29_FlagOnlyWhileInFlight ==
  (resetDone = {"storyboard", "edit"} /\ mounted) =>
    \A s \in DOMAIN shots : \A k \in Kinds :
      FlagOf(shots[s], k) => InFlight(k, s) >= 1

\* a batch is running / has run to its end
BatchRunning == bpc \in {"wave", "delay"}
BatchEnds == bpc # "done" /\ bpc' = "done"
NoFlagLeft(sh, wl, k) == \A p \in DOMAIN wl : ~FlagOf(sh[wl[p]], k)

OwnJob(xj, wl, p, k) == \E j \in xj : j.kind = k /\ j.shot = wl[p]

ExpiredSignal(msg) == \E i \in DOMAIN msg : msg[i] \in {"404", "Not Found"}
FirstFailed == Len(attempts) >= 1 /\ attempts[1].out = "error"
BothFailed == Len(attempts) = 2 /\ attempts[1].out = "error" /\ attempts[2].out = "error"
ConfiguredIsDefault == req.modelId \in {"none", DEFAULT_MODEL}

\* C8: after a generic first failure exactly one more attempt is made, on the
\* default model with the same image, if the configured model is not the
\* default, and none if it is; no request makes more than two attempts
C8_OneFallbackAttempt ==
  /\ Len(attempts) <= 2
  /\ (FirstFailed /\ ~ExpiredSignal(attempts[1].msg) /\ rpc # "first") =>
       IF ConfiguredIsDefault
         THEN Len(attempts) = 1 /\ rpc = "done"
         ELSE /\ Len(attempts) = 2
              /\ attempts[1].model = req.modelId
              /\ attempts[2].model = DEFAULT_MODEL
              /\ attempts[2].input.input_image = req.imageUrl

C8_Witness ==
  /\ rpc = "done" /\ Len(attempts) = 2
  /\ attempts[1].msg = <<"timeout">>
  /\ attempts[2].out = "ok"
  /\ req.modelId = "lightricks/ltx-video:8c47da66"

\* C9: a first failure whose message contains '404' or 'Not Found' ends the
\* request with no further attempt, whatever the model, and the response
\* tells the caller to regenerate the image
C9_ExpiredIsNotRetried ==
  (FirstFailed /\ ExpiredSignal(attempts[1].msg)) =>
    /\ Len(attempts) = 1
    /\ rpc = "done"
    /\ resp.error = ExpiredText /\ resp.status = 400 /\ resp.videoUrl = "none"

C9_Witness ==
  /\ FirstFailed /\ attempts[1].msg = <<"Model ", "Not Found">>
  /\ ~ConfiguredIsDefault
  /\ rpc = "done"

\* C10 as stated: when both attempts fail the response carries the error of
\* the fallback attempt and a marker that the default model was also tried
C10_MarkerOnDoubleFailure ==
  (rpc = "done" /\ BothFailed) =>
    /\ resp.error = (IF ExpiredSignal(attempts[2].msg) THEN ExpiredText
                     ELSE IF attempts[2].msg = <<>> THEN FailedText ELSE attempts[2].msg)
    /\ resp.warning # "none"

\* C10 amended: when both attempts fail the response carries the error of the
\* fallback attempt (the regenerate text with 400, or its message with 500)
\* and nothing else: no marker, no model name
C10_FallbackErrorOnly ==
  (rpc = "done" /\ BothFailed) =>
    /\ resp.error = (IF ExpiredSignal(attempts[2].msg) THEN ExpiredText
                     ELSE IF attempts[2].msg = <<>> THEN FailedText ELSE attempts[2].msg)
    /\ resp.status = (IF ExpiredSignal(attempts[2].msg) THEN 400 ELSE 500)
    /\ resp.warning = "none" /\ resp.modelUsed = "none" /\ resp.videoUrl = "none"

C10_Witness ==
  /\ rpc = "done" /\ BothFailed
  /\ attempts[1].msg = <<"timeout">>
  /\ attempts[2].msg = <<"Prediction failed">>
  /\ resp.status = 500

(***************************************************************************)
(* Fallback inside an image batch.                                         *)
(***************************************************************************)
FirstWave == {p \in Jobs : p <= ImageConcurrency}
SecondWaveStarted == \E p \in Jobs : p > ImageConcurrency /\ bjobs[p].pc # "pending"
FailedOnNonDefault(p) ==
  /\ Len(served[p]) >= 1
  /\ served[p][1].out = "error"
  /\ served[p][1].model # DefaultImageModel
RetriedOnDefault(p) ==
  /\ Len(served[p]) = 2
  /\ served[p][2].model = DefaultImageModel

\* C11: in an image batch of more than one wave, every job of the first wave
\* whose run on a non-default backend failed has been retried on the default
\* backend before a job of the second wave starts, and when the batch is over
\* every job is counted with the result of its last run
C11_FallbackWithinWave ==
  /\ \A p \in FirstWave :
       FailedOnNonDefault(p) /\ SecondWaveStarted => RetriedOnDefault(p)
  /\ bpc = "done" =>
       /\ completed = Len(worklist)
       /\ \A p \in Jobs : /\ bjobs[p].pc = "counted"
                          /\ served[p] # <<>>
                          /\ Succeeded(p) <=> LastAttempt(served[p]).out = "ok"

(***************************************************************************)
(* Properties of composeVideos and processVideo.                           *)
(***************************************************************************)
Segment(i) == segs[i + 1]
Started(i) == spc[i] # "todo"
InProgress == {i \in DOMAIN spc : spc[i] \in {"fetch", "exec"}}
ExecsFor(i) == {k \in DOMAIN execs : execs[k].output = ProcessedFile(i)}
Processed(i) == i \in DOMAIN spc /\ spc[i] = "done" /\ Readable(fs, ProcessedFile(i))

\* C12: within one export a segment is started only when every segment before
\* it is finished, and at most one segment is being processed at any time
C12_OneSegmentAtATime ==
  /\ Cardinality(InProgress) <= 1
  /\ \A i \in DOMAIN spc : Started(i) => \A j \in DOMAIN spc : j < i => spc[j] = "done"

\* the second segment is in its exec after the first went through its own
C12_Witness ==
  /\ Len(segs) = 2 /\ cpc = "loop"
  /\ spc[0] = "done" /\ spc[1] = "exec"
  /\ ExecsFor(0) # {} /\ ExecsFor(1) # {}

IsShortestMux(e) ==
  /\ OptionValue(e, "-c:v") = "copy"
  /\ OptionValue(e, "-c:a") = "aac"
  /\ HasOption(e, "-shortest")

MuxedAsShortest(i) ==
  /\ Cardinality(ExecsFor(i)) = 1
  /\ \A k \in ExecsFor(i) : IsShortestMux(execs[k])
  /\ Processed(i) =>
       /\ fs[ProcessedFile(i)].dur = Min(Segment(i).vd, Segment(i).ad)
       /\ fs[ProcessedFile(i)].vcodec = "source"
       /\ fs[ProcessedFile(i)].acodec = "aac"

\* C14 as stated: every segment with an audioUrl and no caption gets exactly one
\* command, which copies the video, encodes the audio and stops at the shorter
\* stream
C14_SpeechIsMuxed ==
  \A i \in DOMAIN spc :
    HasAudio(Segment(i)) /\ ~HasSubtitle(Segment(i)) /\ spc[i] \in {"exec", "done"} =>
      MuxedAsShortest(i)

\* C14: a segment without caption whose speech clip could be loaded gets exactly
\* one command, which copies the video, encodes the audio and stops at the
\* shorter stream, so that the output lasts as long as the shorter input
C14_LoadedSpeechIsMuxed ==
  \A i \in DOMAIN spc :
    AudioLoads(Segment(i)) /\ ~HasSubtitle(Segment(i)) /\ spc[i] \in {"exec", "done"} =>
      MuxedAsShortest(i)

\* a segment whose speech is longer than its clip has been muxed
C14_Witness ==
  /\ Len(segs) = 2
  /\ AudioLoads(Segment(0)) /\ ~HasSubtitle(Segment(0))
  /\ Segment(0).ad > Segment(0).vd
  /\ Processed(0)
  /\ fs[ProcessedFile(0)].dur = Segment(0).vd

\* C15: a segment with a loaded speech clip and a caption gets one command
\* that muxes the speech as for a segment without caption and encodes the
\* video anew, with the caption drawn into the frames
C15_CaptionIsBurned ==
  \A i \in DOMAIN spc :
    AudioLoads(Segment(i)) /\ HasSubtitle(Segment(i)) /\ spc[i] \in {"exec", "done"} =>
      /\ Cardinality(ExecsFor(i)) = 1
      /\ \A k \in ExecsFor(i) : /\ OptionValue(execs[k], "-c:a") = "aac"
                                /\ HasOption(execs[k], "-shortest")
                                /\ OptionValue(execs[k], "-c:v") # "copy"
                                /\ HasOption(execs[k], "-vf")

\* C16: a segment is reported as processed, on whichever path, only with an
\* output file of more than zero bytes
C16_OutputVerified ==
  /\ \A i \in DOMAIN spc : Processed(i) => fs[ProcessedFile(i)].size > 0
  /\ Len(segs) = 1 /\ cpc = "done" => blob.data.size > 0

\* C17: once the processing of a segment has ended, with or without success,
\* its input file is gone, and so is temp_audio.mp3 unless a later segment is
\* in its own command
C17_ScratchReleased ==
  \A i \in DOMAIN spc :
    spc[i] \in {"done", "failed"} =>
      /\ ~Readable(fs, InputFile(i))
      /\ (\A j \in DOMAIN spc : spc[j] # "exec") => ~Readable(fs, TempAudio)

\* C18: in an export of two or more segments, a segment whose command fails or
\* leaves no output does not make the export fail
C18_FailureIsLocal ==
  Len(segs) >= 2 /\ (\E i \in DOMAIN spc : spc[i] = "failed" /\ ExecsFor(i) # {})
    => cpc # "failed"

InputOrder == [k \in 1 .. Len(segs) |-> k - 1]

\* C19: for two or more segments the concat list names the processed files of
\* the segments in input order, each once, the concat command is the last one
\* issued and copies the streams, and the Blob it yields plays the clips in
\* input order
C19_ConcatInInputOrder ==
  Len(segs) >= 2 =>
    /\ Readable(fs, ConcatTxt) =>
         fs[ConcatTxt].text = [k \in 1 .. Len(segs) |-> ProcessedFile(k - 1)]
    /\ \A k \in DOMAIN execs :
         execs[k] = ConcatExec =>
           /\ k = Len(execs)
           /\ OptionValue(execs[k], "-c") = "copy"
           /\ \A i \in DOMAIN spc : spc[i] = "done"
    /\ cpc = "done" =>
         /\ execs # <<>> /\ execs[Len(execs)] = ConcatExec
         /\ blob.data.size > 0 => blob.data.video = InputOrder

\* two segments were joined
C19_Witness ==
  /\ Len(segs) = 2 /\ cpc = "done"
  /\ blob.status = "blob" /\ blob.data.video = <<0, 1>>
  /\ ~Readable(fs, ConcatTxt)

\* the file processVideo leaves for segment i
ExpectedClip(i) ==
  IF Passthrough(Segment(i)) THEN VideoData(Segment(i), i)
  ELSE MuxOutput(WriteFile(WriteFile(<<>>, InputFile(i), VideoData(Segment(i), i)),
                           TempAudio, AudioData(Segment(i))),
                 MuxExec(i))

\* C20: an export of a single segment returns the processed clip of that
\* segment unchanged and never issues the concat command
C20_SingleClipReturned ==
  Len(segs) = 1 =>
    /\ \A k \in DOMAIN execs : execs[k] # ConcatExec
    /\ cpc # "concat"
    /\ cpc = "done" => blob.status = "blob" /\ blob.data = ExpectedClip(0)

\* the single segment was muxed with its speech and returned
C20_Witness ==
  /\ Len(segs) = 1 /\ cpc = "done"
  /\ AudioLoads(Segment(0))
  /\ blob.data.acodec = "aac" /\ blob.data.video = <<0>>
  /\ Len(execs) = 1

LoopEnds == cpc = "loop" /\ \A i \in DOMAIN spc : spc'[i] = "done"
ListedClipMissing == \E k \in DOMAIN processedFiles : processedFiles[k] \notin DOMAIN fs

Original == audioDataUrl.audio
Resolved == epc = "resolved" /\ caught = "none"
\* originalDuration >= targetDuration, in frames per TargetScale
MeetsTarget == Len(Original.channelData[1]) * TargetScale >= targetDuration * Original.sampleRate
Extension == Resolved /\ ~MeetsTarget

\* a WAV file as a decoder reads it: the format fields of the header, then
\* 16-bit frames from the offset where the samples start
ReadUint16(bytes, at) == bytes[at + 1] + 256 * bytes[at + 2]
ReadUint32(bytes, at) == ReadUint16(bytes, at) + 65536 * ReadUint16(bytes, at + 2)
ReadInt16(bytes, at) ==
  IF ReadUint16(bytes, at) > Int16Max THEN ReadUint16(bytes, at) - 2 * (Int16Max + 1)
  ELSE ReadUint16(bytes, at)
WavChannels(bytes) == ReadUint16(bytes, 22)
WavRate(bytes) == ReadUint32(bytes, 24)
WavFrames(bytes, start) == (Len(bytes) - start) \div (2 * WavChannels(bytes))
WavSample(bytes, start, c, i) ==
  ReadInt16(bytes, start + 2 * ((i - 1) * WavChannels(bytes) + (c - 1)))

\* the 16-bit value of a sample: clamped to [-1, 1], scaled by 32767, fraction dropped
Magnitude(n) == IF n < 0 THEN -n ELSE n
Sixteen(n) ==
  LET m == IF Magnitude(n) > SampleScale THEN SampleScale ELSE Magnitude(n)
      q == (m * Int16Max) \div SampleScale
  IN  IF n < 0 THEN -q ELSE q

\* a decoded 16-bit value v is the float v / 32768
SameSample(v, n) == v * SampleScale = n * (Int16Max + 1)

\* the sample of the input at frame i of channel c, silence after its end
PaddedSample(c, i) ==
  IF i <= Len(Original.channelData[c]) THEN Original.channelData[c][i] ELSE 0

\* C22 as stated: extendAudioToTargetDuration returns its input unchanged when
\* originalDuration >= targetDuration; otherwise the returned audio has the
\* target duration, the channel count and sample rate of the input, leading
\* samples identical to the input samples and zero samples after them
C22_PaddedToTarget ==
  Resolved =>
    IF MeetsTarget THEN extended = audioDataUrl
    ELSE /\ extended.type = "audio/wav"
         /\ WavChannels(extended.bytes) = Original.numberOfChannels
         /\ WavRate(extended.bytes) = Original.sampleRate
         /\ WavFrames(extended.bytes, DataOffset) * TargetScale
              = targetDuration * Original.sampleRate
         /\ \A c \in 1 .. Original.numberOfChannels :
              \A i \in 1 .. WavFrames(extended.bytes, DataOffset) :
                SameSample(WavSample(extended.bytes, DataOffset, c, i), PaddedSample(c, i))

\* the least frame count that lasts targetDuration at the input's rate
IsCeiling(n) ==
  /\ n * TargetScale >= targetDuration * Original.sampleRate
  /\ (n - 1) * TargetScale < targetDuration * Original.sampleRate

\* C22 as amended: the input is returned unchanged when originalDuration >=
\* targetDuration; otherwise extendedBuffer has ceil(targetDuration * sampleRate)
\* frames, the channel count and sample rate of the input, the input samples
\* from offset 0 and zeros after them, and the returned WAV data URL holds
\* that buffer with every sample clamped and cut to 16 bits
C22_PaddedAndQuantised ==
  /\ (Resolved /\ MeetsTarget) => extended = audioDataUrl
  /\ (epc = "encoding" \/ Extension) =>
       /\ extendedBuffer.numberOfChannels = Original.numberOfChannels
       /\ extendedBuffer.sampleRate = Original.sampleRate
       /\ \A c \in 1 .. Original.numberOfChannels :
            /\ IsCeiling(Len(extendedBuffer.channelData[c]))
            /\ \A i \in 1 .. Len(extendedBuffer.channelData[c]) :
                 extendedBuffer.channelData[c][i] = PaddedSample(c, i)
  /\ Extension =>
       /\ extended.type = "audio/wav"
       /\ WavChannels(extended.bytes) = Original.numberOfChannels
       /\ WavRate(extended.bytes) = Original.sampleRate
       /\ IsCeiling(WavFrames(extended.bytes, DataOffset))
       /\ \A c \in 1 .. Original.numberOfChannels :
            \A i \in 1 .. WavFrames(extended.bytes, DataOffset) :
              WavSample(extended.bytes, DataOffset, c, i) = Sixteen(PaddedSample(c, i))

\* an extension whose frame count was rounded up and whose input holds a
\* sample that 16 bits cannot hold and one beyond [-1, 1]
C22_Witness ==
  /\ Extension
  /\ (targetDuration * Original.sampleRate) % TargetScale # 0
  /\ Original.numberOfChannels = 2
  /\ Original.channelData[1][1] = 1
  /\ Original.channelData[2][1] = -(SampleScale + 1)
  /\ extended.type = "audio/wav"

\* C23: whichever step of the normalization fails (atob, the AudioContext,
\* decodeAudioData, the FileReader), the call resolves with the original
\* audioDataUrl and never rejects
C23_FailureReturnsInput ==
  /\ epc # "rejected"
  /\ caught # "none" => (epc = "resolved" /\ extended = audioDataUrl)

\* a decode failure, and a failure after the extended buffer was built
C23_Witness ==
  /\ caught = "FileReader"
  /\ extendedBuffer # NoBuffer
  /\ epc = "resolved"
  /\ extended = audioDataUrl

\* the bytes of the returned WAV file and the buffer they were written from
WavBytes == extended.bytes
Frames == Len(extendedBuffer.channelData[1])

\* C24 as stated: the container is a 42-byte header followed by 16-bit
\* little-endian PCM samples: for L frames and C channels it is 42 + 2*L*C
\* bytes long and the first sample is at byte offset 42
C24_HeaderOf42 ==
  Extension =>
    /\ Len(WavBytes) = 42 + 2 * Frames * extendedBuffer.numberOfChannels
    /\ ReadInt16(WavBytes, 42) = Sixteen(extendedBuffer.channelData[1][1])

\* C24 as amended: the container is a 44-byte header followed by 16-bit
\* little-endian PCM samples, frame by frame and channel by channel: for L
\* frames and C channels it is 44 + 2*L*C bytes long and the first sample is
\* at byte offset 44
C24_HeaderOf44 ==
  Extension =>
    /\ Len(WavBytes) = 44 + 2 * Frames * extendedBuffer.numberOfChannels
    /\ \A i \in 1 .. Frames : \A c \in 1 .. extendedBuffer.numberOfChannels :
         LET at == 44 + 2 * ((i - 1) * extendedBuffer.numberOfChannels + (c - 1))
             v == Sixteen(extendedBuffer.channelData[c][i]) % (2 * (Int16Max + 1))
         IN  /\ WavBytes[at + 1] = v % 256
             /\ WavBytes[at + 2] = v \div 256

\* a stereo file of more than one frame whose first sample has two different bytes
C24_Witness ==
  /\ Extension
  /\ extendedBuffer.numberOfChannels = 2
  /\ Frames > 1
  /\ extendedBuffer.channelData[1][1] = 1
  /\ WavBytes[45] # WavBytes[46]

(***************************************************************************)
(* Properties of the model cache.                                          *)
(***************************************************************************)
\* the step is a call of op: the clock stands still in a call and every call
\* leaves its own record
Called(op) == now' = now /\ got'.op = op
Live(k) == k \in DOMAIN cache /\ now <= cache[k].expiresAt

\* C25: whatever calls and clock advances came before, get(key) returns the
\* stored data if and only if an entry exists for the key and the current
\* time is not past its expiresAt; a get past expiresAt returns absent and
\* removes the entry from the map
C25_LazyExpiry ==
  [][\A k \in CacheKeys :
       (Called("get") /\ got'.arg.key = k) =>
         IF Live(k)
         THEN got'.value = cache[k].data /\ cache' = cache
         ELSE /\ got'.value = "null"
              /\ k \notin DOMAIN cache'
              /\ \A j \in DOMAIN cache \ {k} : j \in DOMAIN cache' /\ cache'[j] = cache[j]]_vars

\* a get past expiresAt has just removed an entry that was still in the map,
\* next to an entry that stays
C25_Witness ==
  /\ got.op = "get"
  /\ got.value = "null"
  /\ got.arg.key = OPENROUTER_KEY
  /\ OPENROUTER_KEY \notin DOMAIN cache
  /\ REPLICATE_KEY \in DOMAIN cache
  /\ now > cache[REPLICATE_KEY].expiresAt

\* C26: clear() without a key removes every entry; clear(k) with any string
\* key k removes exactly the entry of k and leaves every other entry unchanged
C26_ClearIsExact ==
  [][Called("clear") =>
       IF ~got'.arg.given THEN DOMAIN cache' = {}
       ELSE /\ DOMAIN cache' = DOMAIN cache \ {got'.arg.key}
            /\ \A j \in DOMAIN cache' : cache'[j] = cache[j]]_vars

(***************************************************************************)
(* Properties of the catalog endpoints.                                    *)
(***************************************************************************)
CatalogEntry == CatalogKey(catReq.endpoint)
\* the step answers a request whose upstream fetch failed
FetchFailed ==
  catPc = "fetching" /\ catPc' = "responded" /\ catReq'.upstream \in {"error", "partial"}

\* C27: for both endpoints, whenever the upstream fetch fails while a value
\* is cached for the catalog key, also on a forced refresh, the answer is
\* that cached value with a staleness warning, not an error
C27_StaleOnFailure ==
  [][(FetchFailed /\ Live(CatalogEntry)) =>
       /\ catResp'.success
       /\ catResp'.cached
       /\ catResp'.models.list = cache[CatalogEntry].data
       /\ catResp'.warning # "none"]_vars

(***************************************************************************)
(* Properties of the character references.                                 *)
(***************************************************************************)
\* the step is the response of job j
Answers(j) == j \in cjobs /\ j \notin cjobs'
Named(cs, name) == {i \in DOMAIN cs : cs[i].name = name}

\* C28: a character generation job writes its result to the character it was
\* started for, also when characters were added or removed while it was in
\* flight: after its response that character, if still in the story, has its
\* flag cleared, and no other character has been written to
C28_WritesOwnCharacter ==
  [][\A j \in cjobs :
       Answers(j) =>
         /\ \A i \in Named(chars', j.character) : ~chars'[i].isGenerating
         /\ \A i \in DOMAIN chars' :
              chars'[i].name # j.character =>
                \E k \in DOMAIN chars : chars[k] = chars'[i]]_vars

====
